---- MODULE Spec2Model ----
(***************************************************************************)
(* Form automation queue system: the sequential job queue (queue.js), the  *)
(* job context (JobContext in server.js), the label mapper and the classic *)
(* worker's fill/submit state machine (mcp/system.js).                     *)
(*                                                                         *)
(* Strings that the code inspects character by character (labels, data    *)
(* keys) are sequences of one-character strings; opaque strings            *)
(* (selectors, states, messages) are TLA+ strings.                         *)
(***************************************************************************)
EXTENDS Integers, Sequences, FiniteSets, TLC

\* ------------------------------------------------------------------------
\* Bounds of the model
\* ------------------------------------------------------------------------
MaxFields == 2
MaxKeys == 2
MaxJobs == 2
MaxResumes == 1
MaxCalls == 2
MaxLen == 3

\* ------------------------------------------------------------------------
\* Character-level string helpers (String.prototype.toLowerCase, replace,
\* includes, split)
\* ------------------------------------------------------------------------
UpperChars == <<"A","B","C","D","E","F","G","H","I","J","K","L","M",
                "N","O","P","Q","R","S","T","U","V","W","X","Y","Z">>
LowerChars == <<"a","b","c","d","e","f","g","h","i","j","k","l","m",
                "n","o","p","q","r","s","t","u","v","w","x","y","z">>
DigitChars == {"0","1","2","3","4","5","6","7","8","9"}

UpperSet == { UpperChars[i] : i \in 1..26 }
AlnumSet == { LowerChars[i] : i \in 1..26 } \cup DigitChars

LowerChar(c) ==
    IF c \in UpperSet
    THEN LowerChars[CHOOSE i \in 1..26 : UpperChars[i] = c]
    ELSE c

toLowerCase(s) == [i \in 1..Len(s) |-> LowerChar(s[i])]

IsAlnum(c) == c \in AlnumSet

\* s.includes(t)
includes(s, t) ==
    \E i \in 1..(Len(s) + 1) :
        /\ i + Len(t) - 1 <= Len(s)
        /\ SubSeq(s, i, i + Len(t) - 1) = t

\* s.split(/[^a-z0-9]/): the pieces between separator characters
RECURSIVE splitFrom(_, _, _)
splitFrom(s, i, cur) ==
    IF i > Len(s) THEN <<cur>>
    ELSE IF IsAlnum(s[i]) THEN splitFrom(s, i + 1, Append(cur, s[i]))
    ELSE <<cur>> \o splitFrom(s, i + 1, <<>>)

split(s) == splitFrom(s, 1, <<>>)

LongToken(t) == Len(t) > 2

\* ------------------------------------------------------------------------
\* mapFieldsToUserData (mcp/system.js)
\* ------------------------------------------------------------------------
NoKey == <<"<null>">>

\* a replace without the g flag: only the first character outside a-z0-9
\* is removed
normalize_FirstOnly(s) ==
    LET t == toLowerCase(s)
        B == { i \in 1..Len(t) : ~IsAlnum(t[i]) }
    IN  IF B = {} THEN t
        ELSE LET b == CHOOSE i \in B : \A i2 \in B : i <= i2
             IN  SubSeq(t, 1, b - 1) \o SubSeq(t, b + 1, Len(t))
\* const normalize = (s) => s ? s.toLowerCase().replace(/[^a-z0-9]/g, '') : ''
normalize(s) == SelectSeq(toLowerCase(s), IsAlnum)

W_first == <<"f","i","r","s","t">>
W_last == <<"l","a","s","t">>
W_mobile == <<"m","o","b","i","l","e">>
W_gender == <<"g","e","n","d","e","r">>
W_hobbies == <<"h","o","b","b","i","e","s">>

Bonus(cond, pts) == IF cond THEN pts ELSE 0

\* the score of one (field, key) pair: the body of the inner loop, on the
\* normalized label, name and key and the lowercased raw label
scoreOf(fLabel, fName, fLabelRaw, normKey, type) ==
    LET fTokens == SelectSeq(split(fLabel), LongToken)
        kTokens == SelectSeq(split(normKey), LongToken)
        InK(t) == \E i \in 1..Len(kTokens) : kTokens[i] = t
        overlap == SelectSeq(fTokens, InK)
    IN    Bonus(fName = normKey, 100)
        + Bonus(fLabel = normKey, 100)
        + Bonus(includes(fLabel, W_first) /\ includes(normKey, W_first), 50)
        + Bonus(includes(fLabel, W_last) /\ includes(normKey, W_last), 50)
        - Bonus(includes(fLabel, W_first) /\ includes(normKey, W_last), 100)
        - Bonus(includes(fLabel, W_last) /\ includes(normKey, W_first), 100)
        + Bonus(includes(fLabel, normKey) \/ includes(normKey, fLabel), 20)
        + Len(overlap) * 15
        + Bonus(includes(fLabelRaw, W_mobile) /\ includes(normKey, W_mobile), 200)
        + Bonus(fLabelRaw = W_gender /\ normKey = W_gender, 200)
        + Bonus(fLabelRaw = W_hobbies /\ normKey = W_hobbies, 200)
        - Bonus(type = "radio-group" /\ includes(normKey, W_hobbies), 500)
        - Bonus(type = "checkbox-group" /\ includes(normKey, W_gender), 500)

score(field, key) ==
    \* scoreOf's arguments are evaluated once
    LET args == <<normalize(field.label), normalize(field.name),
                  toLowerCase(field.label), normalize(key)>>
    IN  CHOOSE n \in { scoreOf(a[1], a[2], a[3], a[4], field.type) : a \in {args} } : TRUE

\* the inner loop over userDataKeys: bestScore starts at 0 and only a
\* strictly greater score replaces the best key
RECURSIVE bestOf_LastWins(_, _, _, _)
bestOf_LastWins(field, keys, i, best) ==
    IF i > Len(keys) THEN best
    ELSE LET sc == score(field, keys[i])
         IN  IF sc >= best.bestScore
             THEN bestOf_LastWins(field, keys, i + 1, [bestKey |-> keys[i], bestScore |-> sc])
             ELSE bestOf_LastWins(field, keys, i + 1, best)
RECURSIVE bestOf(_, _, _, _)
bestOf(field, keys, i, best) ==
    IF i > Len(keys) THEN best
    ELSE LET sc == score(field, keys[i])
         IN  IF sc > best.bestScore
             THEN bestOf(field, keys, i + 1, [bestKey |-> keys[i], bestScore |-> sc])
             ELSE bestOf(field, keys, i + 1, best)

bestMatch(field, keys) == bestOf(field, keys, 1, [bestKey |-> NoKey, bestScore |-> 0])

\* if (bestKey && bestScore >= 40): null and the empty string are falsy
accepted(best) ==
    best.bestKey # NoKey /\ best.bestKey # <<>> /\ best.bestScore >= 40

\* const mapKey = field.selector || `group-${field.label}`
NoTarget == [sel |-> "", grp |-> <<>>]
mapKeyOf(field) ==
    IF field.selector # "" THEN [sel |-> field.selector, grp |-> <<>>]
    ELSE [sel |-> "", grp |-> field.label]

\* mapping[mapKey] = bestKey (a later write to the same mapKey overwrites)
setMapping(mapping, mk, key) ==
    [x \in (DOMAIN mapping) \cup {mk} |-> IF x = mk THEN key ELSE mapping[x]]

\* mapping[mapKey] as read by the worker: undefined (NoKey) when absent
lookup(mapping, mk) == IF mk \in DOMAIN mapping THEN mapping[mk] ELSE NoKey

EmptyMapping == [x \in {} |-> NoKey]

\* the outer loop: returns the mapping and the field objects, which the
\* function annotates in place with matchedKey and mappingTarget
RECURSIVE mapFrom(_, _, _, _)
mapFrom(fields, keys, i, mapping) ==
    IF i > Len(fields) THEN [mapping |-> mapping, fields |-> fields]
    ELSE LET field == fields[i]
             best == bestMatch(field, keys)
         IN  IF accepted(best)
             THEN mapFrom([fields EXCEPT ![i].matchedKey = best.bestKey,
                                         ![i].mappingTarget = mapKeyOf(field)],
                          keys, i + 1,
                          setMapping(mapping, mapKeyOf(field), best.bestKey))
             ELSE mapFrom(fields, keys, i + 1, mapping)

\* a mapper that passes over the fields an earlier call has annotated
mapFieldsToUserData_SkipMatched(fields, userDataKeys) ==
    LET r == mapFrom(fields, userDataKeys, 1, EmptyMapping)
        fresh == { mapKeyOf(fields[i]) :
                     i \in { n \in 1..Len(fields) : fields[n].matchedKey = NoKey } }
    IN  [mapping |-> [x \in (DOMAIN r.mapping) \cap fresh |-> r.mapping[x]],
         fields |-> r.fields]
mapFieldsToUserData(fields, userDataKeys) == mapFrom(fields, userDataKeys, 1, EmptyMapping)

\* ------------------------------------------------------------------------
\* Detected fields as inspectForm registers them (formInspector.js): label,
\* type, required, selector, verified: false and no name attribute
\* ------------------------------------------------------------------------
Field(label, type, required, selector) ==
    [label |-> label, name |-> <<>>, type |-> type, required |-> required,
     selector |-> selector, matchedKey |-> NoKey, mappingTarget |-> NoTarget,
     verified |-> FALSE]

\* injective sequences of length lo..hi over the set S
InjSeqs(S, lo, hi) ==
    UNION { { q \in [1..n -> S] : \A a, b \in 1..n : a # b => q[a] # q[b] } :
            n \in lo..hi }

\* ------------------------------------------------------------------------
\* inspectForm (formInspector.js): one discovery pass over a page. The page
\* is what the DOM queries of the three strategies answer:
\*   questions  the div[role="listitem"] containers, each with the cleaned
\*              text of its heading, the shape of its content and whether it
\*              holds a Required marker
\*   groups     the native radio/checkbox inputs outside the containers,
\*              grouped by name, each with its resolved group label
\*   inputs     the remaining inputs of the generic scan, each with its
\*              resolved label, element type, required attribute and selector
\* detectedMap is the label -> field Map, kept in insertion order.
\* ------------------------------------------------------------------------
W_email == <<"e","m","a","i","l">>
W_phone == <<"p","h","o","n","e">>
W_date == <<"d","a","t","e">>

\* detectedMap.has(label)
detectedMapHas(detectedMap, label) ==
    \E i \in 1..Len(detectedMap) : detectedMap[i].label = label

\* detectedMap.set(label, field): a label already present keeps its place
\* and gets the new field
detectedMapSet(detectedMap, field) ==
    IF detectedMapHas(detectedMap, field.label)
    THEN [i \in 1..Len(detectedMap) |->
              IF detectedMap[i].label = field.label THEN field ELSE detectedMap[i]]
    ELSE Append(detectedMap, field)

\* const baseSelector = `div[role="listitem"]:nth-of-type(${index + 1})`
baseSelector(index) ==
    "div[role=\"listitem\"]:nth-of-type(" \o ToString(index + 1) \o ")"

\* strategy 0: the field type by the container's content (lines 51-112),
\* then the refinement by the label's keywords (lines 115-118)
questionType(q) ==
    LET fieldType == CASE q.shape = "radio" -> "radio-group"
                       [] q.shape = "checkbox" -> "checkbox-group"
                       [] q.shape = "listbox" -> "select"
                       [] q.shape = "date" -> "date"
                       [] q.shape = "time" -> "time-group"
                       [] q.shape = "textarea" -> "textarea"
                       [] OTHER -> "text"
        lowerLabel == toLowerCase(q.label)
    IN  IF includes(lowerLabel, W_email) THEN "email"
        ELSE IF includes(lowerLabel, W_phone) \/ includes(lowerLabel, W_mobile) THEN "phone"
        ELSE IF includes(lowerLabel, W_date) /\ fieldType = "text" THEN "date"
        ELSE fieldType

\* strategy 0: the selector; "" stands for null (no input in the container)
questionSelector(q, index) ==
    CASE q.shape \in {"radio", "checkbox"} -> baseSelector(index)
      [] q.shape = "listbox" -> baseSelector(index) \o " div[role=\"listbox\"]"
      [] q.shape \in {"input", "date", "time"} ->
             baseSelector(index) \o " input:not([type=\"hidden\"])"
      [] q.shape = "textarea" -> baseSelector(index) \o " textarea"
      [] q.shape = "editable" -> baseSelector(index) \o " [contenteditable=\"true\"]"
      [] OTHER -> ""

questionField(q, index) ==
    Field(q.label, questionType(q), q.required, questionSelector(q, index))

\* strategy 0 registration (lines 129-138)
registerQuestion(detectedMap, q, index) ==
    IF q.label # <<>> /\ questionSelector(q, index) # ""
    THEN detectedMapSet(detectedMap, questionField(q, index))
    ELSE detectedMap

\* strategy 0.5 registration (lines 230-239)
registerGroup(detectedMap, g) ==
    detectedMapSet(detectedMap,
        Field(g.label, IF g.kind = "radio" THEN "radio-group" ELSE "checkbox-group",
              FALSE, g.selector))

\* strategy 1 registration (lines 317-344)
registerInput(detectedMap, el) ==
    IF el.label = <<>> THEN detectedMap
    ELSE IF detectedMapHas(detectedMap, el.label) THEN detectedMap
    ELSE LET lower == toLowerCase(el.label)
             fieldType == IF el.type # "text" THEN el.type
                          ELSE IF includes(lower, W_email) THEN "email"
                          ELSE IF includes(lower, W_phone) \/ includes(lower, W_mobile)
                               THEN "phone"
                          ELSE "text"
         IN  detectedMapSet(detectedMap,
                 Field(el.label, fieldType,
                       el.required \/ includes(el.label, <<"*">>), el.selector))

RECURSIVE scanQuestions(_, _, _)
scanQuestions(detectedMap, questions, i) ==
    IF i > Len(questions) THEN detectedMap
    ELSE scanQuestions(registerQuestion(detectedMap, questions[i], i - 1), questions, i + 1)

RECURSIVE scanGroups(_, _, _)
scanGroups(detectedMap, groups, i) ==
    IF i > Len(groups) THEN detectedMap
    ELSE scanGroups(registerGroup(detectedMap, groups[i]), groups, i + 1)

RECURSIVE scanInputs(_, _, _)
scanInputs(detectedMap, inputs, i) ==
    IF i > Len(inputs) THEN detectedMap
    ELSE scanInputs(registerInput(detectedMap, inputs[i]), inputs, i + 1)

\* return Array.from(detectedMap.values())
inspectForm(page) ==
    scanInputs(scanGroups(scanQuestions(<<>>, page.questions, 1), page.groups, 1),
               page.inputs, 1)

\* ------------------------------------------------------------------------
\* State
\* ------------------------------------------------------------------------
VARIABLES
    env,    \* the inputs of the behaviour: the forms a page can show, the
            \* callers' key lists and request limits, the answers of the page
    sys,    \* the program's state: the JobQueue fields, every JobContext.data
            \* and the locals and position of every worker run
    reqs,   \* number of resume requests the callers have sent
    mIn,    \* arguments of a direct call of mapFieldsToUserData, normalize
            \* or inspectForm
    mOut    \* its result (done = FALSE before the call); in the queue
            \* specifications, the answer to the last HTTP request

vars == <<env, sys, reqs, mIn, mOut>>

\* no jobCompleted event yet
NoEvent == [count |-> 0, job |-> 0, status |-> ""]

\* JobQueue.queue (job ids), JobQueue.isProcessing, JobQueue.processedJobs
queue == sys.queue
isProcessing == sys.isProcessing
processedJobs == sys.processedJobs
\* JobContext.data of every created job, indexed by job id
jobs == sys.jobs
\* the locals and the position of each job's worker run
run == sys.run
\* the job ids in the order of the calls of addJob
added == sys.added
\* the jobCompleted events
completed == sys.completed

\* ------------------------------------------------------------------------
\* JobContext (server.js)
\* ------------------------------------------------------------------------
MaxRetries == 3

\* new JobContext(formUrl, userData, type)
NewJobData(type, keys, form_url) ==
    [type |-> type, keys |-> keys, form_url |-> form_url, status |-> "QUEUED",
     execution_state |-> "QUEUED", error |-> "", retry_count |-> 0,
     missing_fields |-> <<>>, field_mapping |-> EmptyMapping,
     detected_fields |-> <<>>, stateLog |-> <<>>,
     logs |-> <<>>, logCalls |-> 0]

\* the statusMap of updateState; an unknown state maps to FAILED
statusMap(s) ==
    CASE s = "QUEUED" -> "QUEUED"
      [] s \in {"RUNNING", "INSPECTING", "FILLING", "SUBMITTING"} -> "RUNNING"
      [] s = "COMPLETED" -> "COMPLETED"
      [] OTHER -> "FAILED"

\* data.logs after a call that leaves it as newLogs: logs are the messages
\* of data.logs in their order; logCalls counts the calls of log, of
\* recordMCPReasoning and of the worker's wrapper log made for the job.
\* Nothing reads data.logs back: the specifications that do not observe
\* the log (env.logging = FALSE) leave it out.
logged(d, newLogs) ==
    IF env.logging THEN [d EXCEPT !.logs = newLogs, !.logCalls = @ + 1] ELSE d

\* log(message, level)
log(d, message) == logged(d, Append(d.logs, message))

\* recordMCPReasoning(reasoning, context)
recordMCPReasoning(d) == logged(d, Append(d.logs, "mcp_reasoning"))

\* JobContextWrapper.log (mcp/system.js 143-149): the entry is pushed on the
\* wrapper's own list, a second entry is pushed on data.logs by
\* jobContext.log, then data.logs is set to the wrapper's list.
\* mcpLogFirst is the first call of a run, when the wrapper's list is empty;
\* from then on the two lists are one array.
mcpLogFirst(d, message) == logged(d, <<message>>)
mcpLog(d, message) == logged(d, d.logs \o <<message, message>>)

\* updateState(newState); stateLog is the sequence of the "State
\* transition" entries in data.logs
updateState(d, newState) ==
    log([d EXCEPT !.execution_state = newState,
                  !.status = statusMap(newState),
                  !.stateLog = Append(@, newState)], "State transition")

\* setError(message)
setError(d, message) == updateState([d EXCEPT !.error = message], "FAILED")

\* canResume()
canResume_NoLimit(d) ==
    /\ d.status = "FAILED"
    /\ d.execution_state # "INVALID_INPUT"
canResume(d) ==
    /\ d.status = "FAILED"
    /\ d.execution_state # "INVALID_INPUT"
    /\ d.retry_count < MaxRetries

\* prepareForResume()
prepareForResume(d) ==
    recordMCPReasoning(
        log([d EXCEPT !.retry_count = @ + 1, !.status = "PENDING",
                      !.execution_state = "PENDING", !.error = ""],
            "MCP: Preparing job for resume"))

\* ------------------------------------------------------------------------
\* JobQueue (queue.js)
\* ------------------------------------------------------------------------
IdleRun ==
    [pc |-> "idle", idx |-> 0, browser |-> "none",
     jobSuccessfullySubmitted |-> FALSE, pendingThrow |-> FALSE,
     validation |-> [totalRequired |-> 0, filledRequired |-> 0, missingFields |-> <<>>],
     attempts |-> <<>>, submitClicked |-> FALSE, signal |-> "none"]

\* the first synchronous segment of a worker run, up to its first await.
\* Classic worker: JobContextWrapper.log replaces data.logs by the wrapper's
\* own list (this.data.logs = this.logs), which drops the earlier entries.
StartRun(d) ==
    IF d.type = "nlp" THEN [IdleRun EXCEPT !.pc = "nlp_launch"]
    ELSE [IdleRun EXCEPT !.pc = "launch"]

StartData(d) ==
    IF d.type = "nlp"
    THEN log(updateState(d, "RUNNING"), "Initializing browser for NLP Agent...")
    ELSE mcpLogFirst([recordMCPReasoning(updateState(d, "RUNNING"))
                          EXCEPT !.stateLog = <<>>],
                     "Starting Visible Browser")

\* processNext(): st is the record of the queue's and the jobs' state
processNext_NoGuard(st) ==
    IF st.queue = <<>> THEN st
    ELSE LET j == Head(st.queue)
         IN  [st EXCEPT !.isProcessing = TRUE,
                        !.queue = Tail(@),
                        !.processedJobs = Append(@, j),
                        !.jobs[j] = StartData(@),
                        !.run[j] = StartRun(st.jobs[j])]
processNext(st) ==
    IF st.isProcessing THEN st
    ELSE IF st.queue = <<>> THEN st
    ELSE LET j == Head(st.queue)
         IN  [st EXCEPT !.isProcessing = TRUE,
                        !.queue = Tail(@),
                        !.processedJobs = Append(@, j),
                        !.jobs[j] = StartData(@),
                        !.run[j] = StartRun(st.jobs[j])]

\* addJob(mcpContext); added is the history of the calls of addJob
addJob_Front(st, j) ==
    processNext([st EXCEPT !.queue = <<j>> \o @, !.added = Append(@, j),
                           !.jobs[j] = log(@, "Job added to queue")])
addJob(st, j) ==
    processNext([st EXCEPT !.queue = Append(@, j), !.added = Append(@, j),
                           !.jobs[j] = log(@, "Job added to queue")])

\* the catch block of processNext: the worker run threw
queueCatch(st, j) ==
    [st EXCEPT !.jobs[j] = updateState(log(@, "System Error"), "FAILED")]

\* the finally block of processNext: the run of job j has settled;
\* completed is the number of jobCompleted events emitted so far, with the
\* job and the status the last one carries
queueFinally(st, j) ==
    processNext([st EXCEPT !.isProcessing = FALSE, !.run[j].pc = "idle",
                           !.completed = [count |-> @.count + 1, job |-> j,
                                          status |-> st.jobs[j].status]])

\* the worker returned normally / threw
returned(st, j) == queueFinally(st, j)
threw(st, j) == queueFinally(queueCatch(st, j), j)

State == sys

Becomes(st) ==
    /\ sys' = st
    /\ UNCHANGED <<env, reqs, mIn, mOut>>

\* ------------------------------------------------------------------------
\* Classic worker: runJob (mcp/system.js, second module of the file)
\* ------------------------------------------------------------------------
\* typePriority[type] || 10
typePriority(type) ==
    CASE type \in {"text", "email", "phone", "textarea"} -> 1
      [] type = "radio-group" -> 2
      [] type = "checkbox-group" -> 3
      [] type = "select" -> 4
      [] type \in {"date", "date-picker"} -> 5
      [] type = "react-select" -> 6
      [] type = "file" -> 7
      [] OTHER -> 10

\* detectedFields.sort((a, b) => pa - pb): Array.prototype.sort is stable
RECURSIVE insertByPriority(_, _)
insertByPriority(sorted, f) ==
    IF sorted = <<>> THEN <<f>>
    ELSE IF typePriority(sorted[Len(sorted)].type) <= typePriority(f.type)
         THEN Append(sorted, f)
         ELSE Append(insertByPriority(SubSeq(sorted, 1, Len(sorted) - 1), f),
                     sorted[Len(sorted)])

RECURSIVE sortFrom(_, _, _)
sortFrom(fields, i, acc) ==
    IF i > Len(fields) THEN acc
    ELSE sortFrom(fields, i + 1, insertByPriority(acc, fields[i]))

\* the fields left in the order of discovery
sortByPriority_None(fields) == fields
sortByPriority(fields) == sortFrom(fields, 1, <<>>)

\* const userKey = mapping[field.mappingTarget]
userKeyOf(d, field) == lookup(d.field_mapping, field.mappingTarget)

\* the labels of the required fields without a mapped key (lines 306-319)
RECURSIVE missingFrom(_, _, _)
missingFrom(d, fields, i) ==
    IF i > Len(fields) THEN <<>>
    ELSE IF fields[i].required /\ userKeyOf(d, fields[i]) = NoKey
         THEN <<fields[i].label>> \o missingFrom(d, fields, i + 1)
         ELSE missingFrom(d, fields, i + 1)

\* what the page can answer to the interaction with a field of this type:
\*   ok          the handler set interactionSuccess
\*   throw       the handler (or the element lookup) raised
\*   unverified  the handler ended with interactionSuccess still false: the
\*               swallowed file upload error, the date picker whose overlay
\*               did not open, a checkbox group given an empty value list
\*   hidden      the element is not visible and the field is skipped
Outcomes(field) ==
    {"ok", "throw"}
    \cup (IF field.type \in {"file", "date", "date-picker", "checkbox-group"}
          THEN {"unverified"} ELSE {})
    \cup (IF field.selector # "" /\
             field.type \notin {"file", "radio-group", "checkbox-group",
                                "autocomplete", "date-picker", "react-select"}
          THEN {"hidden"} ELSE {})

\* Fields are not marked isDisabled or isReadonly by inspectForm, so the
\* skip of line 367 is never taken for a detected field.
\*
\* the index of the first field at or after k that has a mapped key: the
\* loop passes over the unmapped fields synchronously (lines 360-363)
nextMapped(d, k) ==
    LET fields == d.detected_fields
        S == { i \in k..Len(fields) : userKeyOf(d, fields[i]) # NoKey }
    IN  IF S = {} THEN Len(fields) + 1
        ELSE CHOOSE i \in S : \A i2 \in S : i <= i2

\* the labels pushed to validation.missingFields while passing k..n-1
RECURSIVE skippedRequired(_, _, _)
skippedRequired(d, k, n) ==
    IF k >= n THEN <<>>
    ELSE IF d.detected_fields[k].required
         THEN <<d.detected_fields[k].label>> \o skippedRequired(d, k + 1, n)
         ELSE skippedRequired(d, k + 1, n)

\* the required-field gate and the final validation (lines 868-905): both
\* only warn, then updateState('SUBMITTING') and the submit control lookup
finalValidation_Strict(st, j) ==
    IF st.run[j].validation.missingFields # <<>>
    THEN returned([st EXCEPT !.jobs[j] = updateState(@, "FAILED")], j)
    ELSE [st EXCEPT !.jobs[j] = updateState(@, "SUBMITTING"),
                    !.run[j].pc = "submit",
                    !.run[j].idx = 0]
finalValidation(st, j) ==
    [st EXCEPT !.jobs[j] = updateState(@, "SUBMITTING"),
               !.run[j].pc = "submit",
               !.run[j].idx = 0]

\* The fill loop from field k up to its next await (the element lookup of
\* the next mapped field), or through the required-field gate and the
\* final validation when no field is left.
fillLoop(st, j, k) ==
    LET d == st.jobs[j]
        n == nextMapped(d, k)
        missed == skippedRequired(d, k, n)
        st1 == [st EXCEPT !.run[j].validation.missingFields = @ \o missed]
    IN  IF n > Len(d.detected_fields)
        THEN finalValidation(st1, j)
        ELSE [st1 EXCEPT !.run[j].validation.totalRequired =
                             IF d.detected_fields[n].required THEN @ + 1 ELSE @,
                         !.run[j].pc = "fill",
                         !.run[j].idx = n]

\* the catch block of the fill loop (lines 858-865): the error is logged
\* and recorded with setError; only a required field ends the run
onFillError_NoStop(st, j, k) ==
    fillLoop([st EXCEPT !.jobs[j] = setError(@, "fill error")], j, k + 1)
onFillError_StopAlways(st, j, k) ==
    returned([st EXCEPT !.jobs[j] = updateState(setError(@, "fill error"), "FAILED")], j)
onFillError(st, j, k) ==
    LET st2 == [st EXCEPT !.jobs[j] = setError(mcpLog(@, "Error filling"), "fill error")]
    IN  IF st.jobs[j].detected_fields[k].required
        THEN returned([st2 EXCEPT !.jobs[j] = updateState(@, "FAILED")], j)
        ELSE fillLoop(st2, j, k + 1)

\* the body of the try block for the field at idx, given the page's answer
\* (lines 375-865); attempts records the interactions of the run in order,
\* each with the data key whose value is used (user_data[userKey], line 372)
fillOutcome(st, j, outcome) ==
    LET k == st.run[j].idx
        field == st.jobs[j].detected_fields[k]
        st1 == [st EXCEPT !.run[j].attempts =
                              Append(@, [idx |-> k, label |-> field.label,
                                         required |-> field.required,
                                         key |-> userKeyOf(st.jobs[j], field),
                                         outcome |-> outcome])]
    IN  CASE outcome = "ok" ->
               fillLoop([st1 EXCEPT
                           !.jobs[j].detected_fields[k].verified = TRUE,
                           !.run[j].validation.filledRequired =
                               IF field.required THEN @ + 1 ELSE @], j, k + 1)
          [] outcome = "unverified" ->
               fillLoop([st1 EXCEPT !.jobs[j].detected_fields[k].verified = FALSE],
                        j, k + 1)
          [] outcome = "hidden" -> fillLoop(st1, j, k + 1)
          [] OTHER -> onFillError(st1, j, k)

\* lines 285-356: the detected fields are stored, mapped, the missing
\* required fields recorded, the state set to FILLING and the fields sorted
afterMapping(d, m) ==
    LET d1 == [d EXCEPT !.detected_fields = m.fields, !.field_mapping = m.mapping]
        missing == missingFrom(d1, m.fields, 1)
    IN  [updateState(d1, "FILLING") EXCEPT
            !.missing_fields = IF missing # <<>> THEN missing ELSE @,
            !.detected_fields = sortByPriority(m.fields)]

afterInspect(st, j, form) ==
    LET m == CHOOSE r \in {mapFieldsToUserData(form, st.jobs[j].keys)} : TRUE
        d == CHOOSE r \in {afterMapping(mcpLog(st.jobs[j], "Analyzing form fields..."), m)} : TRUE
    IN  fillLoop([st EXCEPT !.jobs[j] = d], j, 1)

\* the catch and finally blocks of runJob for an exception raised in the
\* try block: setError, rethrow; the browser is closed only after a
\* confirmed submission
runThrew(st, j, message) ==
    LET st1 == [st EXCEPT !.jobs[j] = setError(@, message)]
    IN  IF st.run[j].browser = "open" /\ st.run[j].jobSuccessfullySubmitted
        THEN [st1 EXCEPT !.run[j].pc = "closing", !.run[j].pendingThrow = TRUE]
        ELSE threw(st1, j)

\* ------------------------------------------------------------------------
\* Actions. One action is the code between two awaits: the HTTP handlers
\* run between the steps of a worker, never inside one.
\* ------------------------------------------------------------------------
JobIds == 1..Len(jobs)

\* The userData of a request body: kind is what the JSON value is
\* ("undefined" when the body has none) and keys are the keys of an object
\* or the elements of an array.
UserData(kind, keys) == [kind |-> kind, keys |-> keys]
UserDataKinds == {"undefined", "null", "string", "array", "object"}
\* a formUrl that is absent or the empty string
NoUrl == ""

\* !userData is false; a JSON string stands for a non-empty one
truthy(userData) == userData.kind \in {"string", "array", "object"}
\* typeof userData
typeof(userData) ==
    CASE userData.kind = "undefined" -> "undefined"
      [] userData.kind = "string" -> "string"
      [] OTHER -> "object"
\* Object.keys(userData): the indices of an array
keysOf(userData) ==
    IF userData.kind = "array"
    THEN [i \in 1..Len(userData.keys) |-> <<ToString(i - 1)>>]
    ELSE userData.keys

\* the negation of the input contract check of POST /jobs (line 86)
contractOk(formUrl, userData) ==
    ~(formUrl = NoUrl \/ ~truthy(userData) \/ typeof(userData) # "object")

\* the answer of an HTTP handler: the status code, the job id it names
\* (0 for none) and, for an accepted resume, retry_attempt
Response(op, code, job, retry_attempt) ==
    [op |-> op, code |-> code, job |-> job, retry_attempt |-> retry_attempt]

\* POST /jobs (lines 82-100) and POST /api/chat/start (lines 59-76), whose
\* instruction is passed as userData: new JobContext, jobQueue.addJob.
\* mIn is the request and mOut the answer.
PostJob(type, userData, formUrl) ==
    /\ Len(jobs) < env.maxJobs
    /\ mIn' = [op |-> "post", type |-> type, formUrl |-> formUrl, userData |-> userData]
    /\ UNCHANGED <<env, reqs>>
    /\ IF \/ type = "json" /\ ~contractOk(formUrl, userData)
          \/ type = "nlp" /\ ~truthy(userData)
       THEN /\ mOut' = Response("post", 400, 0, 0)
            /\ UNCHANGED sys
       ELSE LET j == Len(jobs) + 1
            IN  /\ sys' = addJob([State EXCEPT
                                    !.jobs = Append(@, NewJobData(type, keysOf(userData), formUrl)),
                                    !.run = Append(@, IdleRun)], j)
                /\ mOut' = Response("post", 201, j, 0)

\* POST /jobs/:jobId/resume (lines 106-137); an id outside JobIds is the
\* id of no job. env.rejections tells whether the callers also send the
\* requests the handler rejects.
Resume(j) ==
    /\ reqs < env.maxResumes
    /\ reqs' = reqs + 1
    /\ mIn' = [op |-> "resume", job |-> j]
    /\ UNCHANGED env
    /\ IF j \notin JobIds
       THEN /\ env.rejections
            /\ mOut' = Response("resume", 404, 0, 0)
            /\ UNCHANGED sys
       ELSE IF ~canResume(jobs[j])
       THEN /\ env.rejections
            /\ mOut' = Response("resume", 400, j, 0)
            /\ UNCHANGED sys
       ELSE /\ sys' = addJob([State EXCEPT !.jobs[j] = prepareForResume(@)], j)
            /\ mOut' = Response("resume", 200, j, jobs[j].retry_count + 1)

\* chromium.launch, newContext, newPage (lines 266-275)
Launch(j, ok) ==
    /\ run[j].pc = "launch"
    /\ ok \/ env.pageErrors
    /\ IF ok
       THEN Becomes([State EXCEPT !.jobs[j] = updateState(@, "INSPECTING"),
                                  !.run[j].browser = "open",
                                  !.run[j].pc = "inspect"])
       ELSE Becomes(runThrew(State, j, "launch failed"))

\* page.goto and inspectForm (lines 282-286), then the synchronous code up
\* to the first field interaction
Inspect(j, ok, form) ==
    /\ run[j].pc = "inspect"
    /\ ok \/ env.pageErrors
    /\ IF ok
       THEN \E st \in {afterInspect(State, j, form)} : Becomes(st)
       ELSE /\ form = <<>>
            /\ Becomes(runThrew(State, j, "navigation failed"))

\* the interaction with the field the loop is waiting on (lines 375-865)
Fill(j, outcome) ==
    /\ run[j].pc = "fill"
    /\ outcome \in Outcomes(jobs[j].detected_fields[run[j].idx]) \cap env.fillAnswers
    /\ \E st \in {fillOutcome(State, j, outcome)} : Becomes(st)

\* the form URLs of the callers and the URL of the page after a submission
\* that navigates
PlainUrl == "https://demoqa.com/automation-practice-form"
EditUrl == "https://docs.google.com/forms/d/e/1/edit"
ViewUrl == "https://docs.google.com/forms/d/e/1/viewform"
ResponseUrl == "https://docs.google.com/forms/d/e/1/formResponse"
FormUrls == {PlainUrl, EditUrl}

\* lines 277-280: a Google Forms URL ending in /edit is opened as /viewform
finalUrl(form_url) == IF form_url = EditUrl THEN ViewUrl ELSE form_url

\* line 961: the URL test of the confirmation fallback compares the page's
\* URL with the caller's form_url
urlConfirms(currentUrl, form_url) ==
    currentUrl = ResponseUrl \/ currentUrl # form_url

\* what the page can answer in the submission step:
\*   notfound      no submit control
\*   throw         a page call raised
\*   successText   the success text appeared after the click
\*   urlChanged    no success text; the click navigated to another URL
\*   formGone      no success text, same URL; the first field's element is gone
\*   stillPresent  no success text, same URL; the element is still there
\*   noFirstField  no success text, same URL; there is no detected field
SubmitOutcomes(d) ==
    {"notfound", "throw", "successText", "urlChanged"}
    \cup (IF d.detected_fields # <<>> THEN {"formGone", "stillPresent"}
          ELSE {"noFirstField"})

\* lines 957-977: jobSuccessfullySubmitted = true, updateState('COMPLETED');
\* signal is the confirmation the page gave ("none" when it gave none)
confirmed(st, j, signal) ==
    [st EXCEPT !.jobs[j] = updateState(@, "COMPLETED"),
               !.run[j].submitClicked = TRUE,
               !.run[j].signal = signal,
               !.run[j].jobSuccessfullySubmitted = TRUE,
               !.run[j].pc = "postwait"]

\* lines 984-1000: no submit control: updateState('FAILED'), then setError
submitNotFound_NoError(st, j) ==
    [st EXCEPT !.jobs[j] = updateState(@, "FAILED"),
               !.run[j].signal = "notfound",
               !.run[j].pc = "postwait"]
submitNotFound(st, j) ==
    [st EXCEPT !.jobs[j] = setError(updateState(@, "FAILED"), "Submit button not found"),
               !.run[j].signal = "notfound",
               !.run[j].pc = "postwait"]

\* locating and clicking the submit control and waiting for a confirmation
\* (lines 907-1000)
Submit(j, outcome) ==
    /\ run[j].pc = "submit"
    /\ outcome \in SubmitOutcomes(jobs[j]) \cap env.submitAnswers
    /\ LET form_url == jobs[j].form_url
           currentUrl == IF outcome = "urlChanged" THEN ResponseUrl
                         ELSE finalUrl(form_url)
           clicked == [State EXCEPT !.run[j].submitClicked = TRUE]
       IN  CASE outcome = "notfound" ->
                  Becomes(submitNotFound(State, j))
             [] outcome = "throw" ->
                  Becomes(runThrew(State, j, "page error"))
             [] outcome = "successText" ->
                  Becomes(confirmed(State, j, "successText"))
             [] OTHER ->
                  IF urlConfirms(currentUrl, form_url)
                  THEN Becomes(confirmed(State, j,
                                   IF outcome = "urlChanged" THEN "urlChanged" ELSE "none"))
                  ELSE IF outcome = "formGone"
                  THEN Becomes(confirmed(State, j, "formGone"))
                  ELSE IF outcome = "stillPresent"
                  THEN Becomes(runThrew(clicked, j,
                           "Submission failed: Form is still present after clicking submit"))
                  ELSE Becomes(runThrew(clicked, j, "Cannot read properties of undefined"))

\* await page.waitForTimeout(3000) (line 1002) and the start of finally
PostWait(j, ok) ==
    /\ run[j].pc = "postwait"
    /\ ok \/ env.pageErrors
    /\ IF ~ok THEN Becomes(runThrew(State, j, "page error"))
       ELSE IF run[j].jobSuccessfullySubmitted
       THEN Becomes([State EXCEPT !.run[j].pc = "closing"])
       ELSE Becomes(returned(State, j))

\* finally: await page.waitForTimeout(5000); await browser.close()
Closing(j, ok) ==
    /\ run[j].pc = "closing"
    /\ ok \/ env.pageErrors
    /\ IF ok /\ ~run[j].pendingThrow
       THEN Becomes(returned([State EXCEPT !.run[j].browser = "closed"], j))
       ELSE Becomes(threw([State EXCEPT !.run[j].browser = IF ok THEN "closed" ELSE @], j))

\* NLP worker runJob (mcp/system.js, first module of the file): launch
NlpLaunch(j, ok) ==
    /\ run[j].pc = "nlp_launch"
    /\ ok \/ env.pageErrors
    /\ IF ok
       THEN Becomes([State EXCEPT !.jobs[j] = updateState(@, "RUNNING"),
                                  !.run[j].browser = "open",
                                  !.run[j].pc = "nlp_agent"])
       ELSE Becomes(threw(State, j))

\* NLP worker: navigateTo and processUserMessage, then browser.close
NlpAgent(j, ok) ==
    /\ run[j].pc = "nlp_agent"
    /\ IF ok
       THEN Becomes(returned([State EXCEPT !.jobs[j] = updateState(@, "COMPLETED"),
                                           !.run[j].browser = "closed"], j))
       ELSE Becomes(returned([State EXCEPT
                                 !.jobs[j] = updateState(setError(@, "agent error"), "FAILED"),
                                 !.run[j].browser = "closed"], j))

\* a direct call of mapFieldsToUserData on the field objects and keys of
\* mIn. The field objects are shared between the calls: a repeated call
\* receives them as the previous call left them. first is the mapping the
\* first call returned.
MapCall ==
    /\ mOut.calls < env.maxCalls
    /\ LET objects == IF mOut.done THEN mOut.fields ELSE mIn.fields
       IN  \E r \in {mapFieldsToUserData(objects, mIn.keys)} :
               mOut' = [done |-> TRUE, calls |-> mOut.calls + 1,
                        mapping |-> r.mapping, fields |-> r.fields,
                        first |-> IF mOut.done THEN mOut.first ELSE r.mapping]
    /\ UNCHANGED <<env, sys, reqs, mIn>>

\* a direct call of inspectForm on the page mIn
InspectCall ==
    /\ ~mOut.done
    /\ mOut' = [done |-> TRUE, fields |-> inspectForm(mIn)]
    /\ UNCHANGED <<env, sys, reqs, mIn>>

\* a direct call of normalize: the first call on the string mIn.s, a
\* repeated call on the result of the previous call
NormalizeCall ==
    /\ mOut.calls < MaxCalls
    /\ LET arg == IF mOut.done THEN mOut.out ELSE mIn.s
       IN  \E r \in {normalize(arg)} :
               mOut' = [done |-> TRUE, calls |-> mOut.calls + 1, out |-> r,
                        first |-> IF mOut.done THEN mOut.first ELSE r]
    /\ UNCHANGED <<env, sys, reqs, mIn>>

\* ------------------------------------------------------------------------
\* Option groups: findOptionMatch, the radio-group and checkbox-group
\* handlers of the worker (mcp/system.js) and of shared/fieldInteractions.js
\* ------------------------------------------------------------------------
\* String.prototype.trim, for the space character
RECURSIVE trim(_)
trim(s) ==
    IF s = <<>> THEN s
    ELSE IF Head(s) = " " THEN trim(Tail(s))
    ELSE IF s[Len(s)] = " " THEN trim(SubSeq(s, 1, Len(s) - 1))
    ELSE s

\* an option with the attributes findOptionMatch reads; the empty
\* sequence is the empty string, or an attribute the option does not have
\* (undefined): both are falsy
OptionOf(id, value, label, text) ==
    [id |-> id, value |-> value, label |-> label, text |-> text]
\* an option as inspectForm records it for a radio or a checkbox: value and
\* label are the same text and there is no text attribute
Option(id, label) == OptionOf(id, label, label, <<>>)

\* findOptionMatch(options, userValue): the index of the first option that
\* has a truthy value, label or text which, trimmed and in lower case,
\* equals the trimmed lower-case value; 0 stands for null
RECURSIVE findOptionFrom_Includes(_, _, _)
findOptionFrom_Includes(options, normVal, i) ==
    IF i > Len(options) THEN 0
    ELSE IF \/ options[i].value # <<>> /\ includes(toLowerCase(trim(options[i].value)), normVal)
            \/ options[i].label # <<>> /\ includes(toLowerCase(trim(options[i].label)), normVal)
            \/ options[i].text # <<>> /\ includes(toLowerCase(trim(options[i].text)), normVal)
         THEN i
         ELSE findOptionFrom_Includes(options, normVal, i + 1)
RECURSIVE findOptionFrom(_, _, _)
findOptionFrom(options, normVal, i) ==
    IF i > Len(options) THEN 0
    ELSE IF \/ options[i].value # <<>> /\ toLowerCase(trim(options[i].value)) = normVal
            \/ options[i].label # <<>> /\ toLowerCase(trim(options[i].label)) = normVal
            \/ options[i].text # <<>> /\ toLowerCase(trim(options[i].text)) = normVal
         THEN i
         ELSE findOptionFrom(options, normVal, i + 1)
findOptionMatch(options, userValue) ==
    findOptionFrom(options, toLowerCase(trim(userValue)), 1)

\* The radio group of a page: page is the index of the option whose input is
\* checked (0 for none). A click on option m checks it when the page reacts
\* to the click (reacts), and leaves the group as it is otherwise.
radioClick(page, m, reacts) == IF reacts THEN m ELSE page

\* the state of a call of a radio handler
RadioCall(pc, page, match, clicks, isChecked, result) ==
    [pc |-> pc, page |-> page, match |-> match, clicks |-> clicks,
     isChecked |-> isChecked, result |-> result]

\* both handlers: the option lookup; no match raises
RadioMatch ==
    /\ mOut.pc = "start"
    /\ LET m == findOptionMatch(mIn.options, mIn.value)
       IN  mOut' = IF m = 0
                   THEN [mOut EXCEPT !.pc = "done", !.result = "throw"]
                   ELSE [mOut EXCEPT !.pc = "click", !.match = m]
    /\ UNCHANGED <<env, sys, reqs, mIn>>

\* both handlers: the first click (page.click, or the click by evaluate
\* when page.click raises) and the 300 ms wait
RadioClick ==
    /\ mOut.pc = "click"
    /\ mOut' = [mOut EXCEPT !.pc = "verify", !.clicks = @ + 1,
                            !.page = radioClick(@, mOut.match, mIn.reacts[1])]
    /\ UNCHANGED <<env, sys, reqs, mIn>>

\* both handlers: the read-back of the input's checked state. Unchecked:
\* the worker's inline handler clicks once more and sets interactionSuccess
\* without another read (mcp/system.js 686-694); selectRadio clicks once
\* more and reads again (fieldInteractions.js 297-331).
RadioVerify ==
    /\ mOut.pc = "verify"
    /\ LET isChecked == mOut.page = mOut.match
           retried == [mOut EXCEPT !.isChecked = FALSE, !.clicks = @ + 1,
                                   !.page = radioClick(@, mOut.match, mIn.reacts[2])]
       IN  mOut' = IF isChecked
                   THEN [mOut EXCEPT !.pc = "done", !.isChecked = TRUE,
                                     !.result = "success"]
                   ELSE IF mIn.handler = "inline"
                   THEN [retried EXCEPT !.pc = "done", !.result = "success"]
                   ELSE [retried EXCEPT !.pc = "reverify"]
    /\ UNCHANGED <<env, sys, reqs, mIn>>

\* selectRadio: the read-back after the retry; still unchecked raises
RadioReverify ==
    /\ mOut.pc = "reverify"
    /\ LET isCheckedRetry == mOut.page = mOut.match
       IN  mOut' = [mOut EXCEPT !.pc = "done", !.isChecked = isCheckedRetry,
                               !.result = IF isCheckedRetry THEN "success" ELSE "throw"]
    /\ UNCHANGED <<env, sys, reqs, mIn>>

\* The checkbox group of a page: page is the set of the indices of the
\* checked options; a click on an option toggles it.
checkboxClick(page, m) == IF m \in page THEN page \ {m} ELSE page \cup {m}

\* the state of a checkbox handler inside its loop: the page, the clicks
\* made so far (the option and whether it was checked when clicked) and
\* whether the handler has raised
clicked(c, m) ==
    [c EXCEPT !.page = checkboxClick(@, m),
              !.clicks = Append(@, [option |-> m, wasChecked |-> m \in c.page])]

\* the worker's inline handler for one matched option (mcp/system.js
\* 711-747). A Google Forms checkbox (aria) is clicked, its aria-checked
\* read, and clicked again and read again when it is not 'true'; any other
\* checkbox is clicked through its label or selector. No branch reads the
\* state before the first click.
inlineOption(c, m, aria) ==
    LET c1 == clicked(c, m)
    IN  IF ~aria THEN c1
        ELSE IF m \in c1.page THEN c1
        ELSE LET c2 == clicked(c1, m)
             IN  IF m \in c2.page THEN c2 ELSE [c2 EXCEPT !.result = "throw"]

\* selectCheckbox for one matched option (fieldInteractions.js 346-387):
\* the state is read with document.getElementById(match.id), which finds
\* nothing for an option without an id; a checked option is skipped; after
\* the click the state is read again and, when not checked, the option is
\* clicked once more
sharedOption(c, m, id) ==
    LET currentState == id # "" /\ m \in c.page
        c1 == clicked(c, m)
        isChecked == id # "" /\ m \in c1.page
    IN  IF currentState THEN c
        ELSE IF isChecked THEN c1
        ELSE clicked(c1, m)

\* for (const val of values): no matching option raises
RECURSIVE checkboxLoop(_, _, _, _, _, _)
checkboxLoop(handler, aria, options, values, i, c) ==
    IF i > Len(values) \/ c.result = "throw" THEN c
    ELSE LET m == findOptionMatch(options, values[i])
         IN  IF m = 0 THEN [c EXCEPT !.result = "throw"]
             ELSE checkboxLoop(handler, aria, options, values, i + 1,
                      IF handler = "inline" THEN inlineOption(c, m, aria)
                      ELSE sharedOption(c, m, options[m].id))

\* a call of a checkbox handler on the page as the previous call left it
selectCheckbox(handler, aria, options, values, page) ==
    checkboxLoop(handler, aria, options, values, 1,
                 [page |-> page, clicks |-> <<>>, result |-> "success"])

CheckboxCall ==
    /\ mOut.calls < MaxCalls
    /\ \E c \in {selectCheckbox(mIn.handler, mIn.aria, mIn.options, mIn.values, mOut.page)} :
           mOut' = [calls |-> mOut.calls + 1, before |-> mOut.page, page |-> c.page,
                    clicks |-> c.clicks, result |-> c.result,
                    first |-> IF mOut.calls = 0 THEN c.page ELSE mOut.first]
    /\ UNCHANGED <<env, sys, reqs, mIn>>

\* ------------------------------------------------------------------------
\* Inputs: labels as a page shows them, data keys as a caller sends them
\* ------------------------------------------------------------------------
L_FirstName == <<"F","i","r","s","t"," ","N","a","m","e">>
L_FirstLast == <<"F","i","r","s","t"," ","L","a","s","t">>
L_Hobbies == <<"H","o","b","b","i","e","s">>
L_Gender == <<"G","e","n","d","e","r">>
L_Mobile == <<"M","o","b","i","l","e">>
L_MobileNumber == <<"M","o","b","i","l","e"," ","N","u","m","b","e","r">>
L_EmailAddress == <<"E","m","a","i","l"," ","A","d","d","r","e","s","s">>
L_Photo == <<"P","h","o","t","o">>
L_Birth == <<"B","i","r","t","h">>
L_Nick == <<"N","i","c","k">>
L_State == <<"S","t","a","t","e">>
L_City == <<"C","i","t","y">>
K_first_name == <<"f","i","r","s","t","_","n","a","m","e">>
K_firstlast == <<"f","i","r","s","t","l","a","s","t">>
K_hobbies == <<"h","o","b","b","i","e","s">>
K_gender == <<"g","e","n","d","e","r">>
K_mobile == <<"m","o","b","i","l","e">>
K_email == <<"e","m","a","i","l">>
K_photo == <<"p","h","o","t","o">>
K_birth == <<"b","i","r","t","h">>
K_nick == <<"n","i","c","k">>
K_LastName == <<"L","a","s","t"," ","N","a","m","e">>
K_empty == <<>>

F_FirstName == Field(L_FirstName, "text", TRUE, "#firstName")
F_FirstLast == Field(L_FirstLast, "text", TRUE, "#fullName")
F_Hobbies == Field(L_Hobbies, "radio-group", FALSE, "div > div > div")
F_Gender == Field(L_Gender, "radio-group", FALSE, "#genterWrapper")
F_Mobile == Field(L_Mobile, "phone", TRUE, "#userNumber")
F_MobileNumber == Field(L_MobileNumber, "text", FALSE, "div > div > input")
F_EmailAddress == Field(L_EmailAddress, "email", TRUE, "#userEmail")
F_Photo == Field(L_Photo, "file", TRUE, "#uploadPicture")
F_Birth == Field(L_Birth, "date-picker", FALSE, "#dateOfBirthInput")
F_Nick == Field(L_Nick, "text", FALSE, "#nick")
F_NoSelector == Field(L_Nick, "checkbox-group", FALSE, "")

F_HobbiesBoxes == Field(L_Hobbies, "checkbox-group", FALSE, "#hobbiesWrapper")
F_State == Field(L_State, "select", FALSE, "#state")
F_City == Field(L_City, "react-select", FALSE, "#city")

\* direct mapper calls
MapFieldPool == {F_FirstName, F_FirstLast, F_Hobbies, F_Gender, F_Mobile,
                 F_MobileNumber, F_EmailAddress, F_NoSelector}
MapKeyPool == {K_first_name, K_firstlast, K_hobbies, K_gender, K_mobile,
               K_email, K_LastName, K_empty}

DistinctLabels(form) ==
    \A a, b \in 1..Len(form) : a # b => form[a].label # form[b].label

\* one worker run on every page
RunFieldPool == {F_FirstName, F_Gender, F_Photo, F_EmailAddress}
RunForms == InjSeqs(RunFieldPool, 0, MaxFields)
RunKeyLists == {<<K_first_name, K_gender, K_photo, K_email>>, <<>>}

\* one worker run on a page with fields of every interaction priority; the
\* caller's data keys are the labels of the page
FillFieldPool == {F_FirstName, F_Mobile, F_Gender, F_HobbiesBoxes, F_State,
                  F_Birth, F_City, F_Photo, F_FirstLast}
FillForms == InjSeqs(FillFieldPool, 0, MaxFields)
FillKeyLists == {<<L_FirstName, L_Mobile, L_Gender, L_Hobbies, L_State,
                   L_Birth, L_City, L_Photo, L_FirstLast>>}

\* one worker run on a small page, with every answer to the submission
SubmitFieldPool == {F_FirstName, F_Gender}
SubmitForms == InjSeqs(SubmitFieldPool, 0, MaxFields)

\* several jobs on one page
QueueForms == {<<F_Nick, F_Gender>>}
QueueKeyLists == {<<K_nick, K_gender>>}

JobTypes == {"json", "nlp"}

NoCall == [done |-> FALSE, calls |-> 0, mapping |-> EmptyMapping,
           fields |-> <<>>, first |-> EmptyMapping]

FillAnswers == {"ok", "throw", "unverified", "hidden"}
SubmitAnswers == {"notfound", "throw", "successText", "urlChanged",
                  "formGone", "stillPresent", "noFirstField"}

InitQueueState ==
    /\ sys = [queue |-> <<>>, isProcessing |-> FALSE, processedJobs |-> <<>>,
              added |-> <<>>, jobs |-> <<>>, run |-> <<>>,
              completed |-> NoEvent]
    /\ reqs = 0
    /\ mIn = [op |-> "none"]
    /\ mOut = Response("none", 0, 0, 0)

\* up to MaxJobs jobs on one form; the page answers without page errors
Init ==
    /\ env = [forms |-> QueueForms, keyLists |-> QueueKeyLists, urls |-> {PlainUrl},
              maxJobs |-> MaxJobs, maxResumes |-> MaxResumes,
              fillAnswers |-> {"ok", "throw"},
              submitAnswers |-> {"notfound", "successText"},
              pageErrors |-> FALSE, rejections |-> FALSE,
              kinds |-> {"object"}, logging |-> FALSE]
    /\ InitQueueState

\* one job on every form of RunForms, with every answer of the page
InitRun ==
    /\ env = [forms |-> RunForms, keyLists |-> RunKeyLists, urls |-> {PlainUrl},
              maxJobs |-> 1, maxResumes |-> MaxResumes,
              fillAnswers |-> FillAnswers,
              submitAnswers |-> SubmitAnswers,
              pageErrors |-> TRUE, rejections |-> FALSE,
              kinds |-> {"object"}, logging |-> FALSE]
    /\ InitQueueState

\* one job on every form of FillForms with matching data keys; no page
\* errors and no resume request
InitFill ==
    /\ env = [forms |-> FillForms, keyLists |-> FillKeyLists, urls |-> {PlainUrl},
              maxJobs |-> 1, maxResumes |-> 0,
              fillAnswers |-> {"ok", "throw"},
              submitAnswers |-> {"notfound", "successText"},
              pageErrors |-> FALSE, rejections |-> FALSE,
              kinds |-> {"object"}, logging |-> FALSE]
    /\ InitQueueState

\* one job on every form of SubmitForms and every form URL; the fields
\* fill, the submission step and the waits get every answer
InitSubmit ==
    /\ env = [forms |-> SubmitForms, keyLists |-> RunKeyLists, urls |-> FormUrls,
              maxJobs |-> 1, maxResumes |-> MaxResumes,
              fillAnswers |-> {"ok"},
              submitAnswers |-> SubmitAnswers,
              pageErrors |-> TRUE, rejections |-> FALSE,
              kinds |-> {"object"}, logging |-> FALSE]
    /\ InitQueueState

\* a direct call of the mapper on every field list and key list
InitMap ==
    /\ env = [forms |-> {}, keyLists |-> {}, urls |-> {}, maxJobs |-> 0, maxResumes |-> 0,
              maxCalls |-> 1,
              fillAnswers |-> {}, submitAnswers |-> {}, pageErrors |-> FALSE]
    /\ sys = [queue |-> <<>>, isProcessing |-> FALSE, processedJobs |-> <<>>,
              added |-> <<>>, jobs |-> <<>>, run |-> <<>>,
              completed |-> NoEvent]
    /\ reqs = 0
    /\ mIn \in { [fields |-> f, keys |-> k] :
                   f \in { q \in InjSeqs(MapFieldPool, 1, MaxFields) : DistinctLabels(q) },
                   k \in InjSeqs(MapKeyPool, 0, MaxKeys) }
    /\ mOut = NoCall

\* one job on one form; the callers send every resume request, more often
\* than the retry limit allows
InitResume ==
    /\ env = [forms |-> QueueForms, keyLists |-> QueueKeyLists, urls |-> {PlainUrl},
              maxJobs |-> 1, maxResumes |-> MaxRetries + 1 + MaxResumes,
              fillAnswers |-> {"ok", "throw"},
              submitAnswers |-> {"notfound", "successText"},
              pageErrors |-> FALSE, rejections |-> TRUE,
              kinds |-> {"object"}, logging |-> FALSE]
    /\ InitQueueState

\* up to MaxJobs classic jobs on one form; the callers send every body
InitPost ==
    /\ env = [forms |-> QueueForms, keyLists |-> QueueKeyLists, urls |-> {PlainUrl, NoUrl},
              maxJobs |-> MaxJobs, maxResumes |-> 0,
              fillAnswers |-> {"ok"},
              submitAnswers |-> {"notfound", "successText"},
              pageErrors |-> FALSE, rejections |-> FALSE,
              kinds |-> UserDataKinds, logging |-> FALSE]
    /\ InitQueueState

\* a call of a radio handler on a group of two options, for every value,
\* every option checked before the call and every reaction of the page to
\* the two clicks
L_Male == <<"M","a","l","e">>
L_Female == <<"F","e","m","a","l","e">>
RadioOptions == <<Option("gender-radio-1", L_Male), Option("gender-radio-2", L_Female)>>
RadioValues == {<<"m","a","l","e">>, L_Female, <<" ","M","a","l","e"," ">>,
                <<"O","t","h","e","r">>}
NoEnv ==
    [forms |-> {}, keyLists |-> {}, urls |-> {}, maxJobs |-> 0, maxResumes |-> 0,
     fillAnswers |-> {}, submitAnswers |-> {}, pageErrors |-> FALSE]
IdleSys ==
    [queue |-> <<>>, isProcessing |-> FALSE, processedJobs |-> <<>>,
     added |-> <<>>, jobs |-> <<>>, run |-> <<>>,
              completed |-> NoEvent]
InitRadio ==
    /\ env = NoEnv
    /\ sys = IdleSys
    /\ reqs = 0
    /\ mIn \in { [handler |-> h, options |-> RadioOptions, value |-> v, reacts |-> r] :
                   h \in {"inline", "shared"}, v \in RadioValues,
                   r \in [1..2 -> BOOLEAN] }
    /\ \E page \in 0..Len(RadioOptions) :
           mOut = RadioCall("start", page, 0, 0, FALSE, "none")

NextRadio ==
    \/ RadioMatch
    \/ RadioClick
    \/ RadioVerify
    \/ RadioReverify

\* calls of a checkbox handler on a group of two options, with and without
\* element ids, for every list of values and every set of options checked
\* before the first call
L_Sports == <<"S","p","o","r","t","s">>
L_Music == <<"M","u","s","i","c">>
CheckboxOptions(ids) ==
    <<Option(IF ids THEN "hobbies-checkbox-1" ELSE "", L_Sports),
      Option(IF ids THEN "hobbies-checkbox-2" ELSE "", L_Music)>>
CheckboxValues == {<<"s","p","o","r","t","s">>, <<" ","M","u","s","i","c">>,
                   <<"R","e","a","d","i","n","g">>}
ValueLists == UNION { [1..n -> CheckboxValues] : n \in 1..MaxFields }
InitCheckbox ==
    /\ env = NoEnv
    /\ sys = IdleSys
    /\ reqs = 0
    /\ mIn \in { [handler |-> h, aria |-> a, options |-> CheckboxOptions(ids), values |-> v] :
                   h \in {"inline", "shared"}, a \in BOOLEAN, ids \in BOOLEAN,
                   v \in ValueLists }
    /\ \E page \in SUBSET (1..2) :
           mOut = [calls |-> 0, before |-> page, page |-> page, clicks |-> <<>>,
                   result |-> "none", first |-> page]

NextCheckbox == CheckboxCall

\* one worker run on a page where two inputs without id and name get the
\* same path selector from generateSelector
F_NickPath == Field(L_Nick, "text", FALSE, "div > div > input")
CollideFieldPool == {F_MobileNumber, F_NickPath, F_Gender, F_FirstName}
CollideForms == InjSeqs(CollideFieldPool, 0, MaxFields)
CollideKeyLists == {<<K_mobile, K_nick, K_gender, K_first_name>>}
InitCollide ==
    /\ env = [forms |-> CollideForms, keyLists |-> CollideKeyLists, urls |-> {PlainUrl},
              maxJobs |-> 1, maxResumes |-> 0,
              fillAnswers |-> {"ok", "throw"},
              submitAnswers |-> {"notfound", "successText"},
              pageErrors |-> FALSE, rejections |-> FALSE,
              kinds |-> {"object"}, logging |-> FALSE]
    /\ InitQueueState

\* one job on one form, with the entries of its log kept
InitLog ==
    /\ env = [forms |-> QueueForms, keyLists |-> QueueKeyLists, urls |-> {PlainUrl},
              maxJobs |-> 1, maxResumes |-> MaxResumes,
              fillAnswers |-> {"ok", "throw"},
              submitAnswers |-> {"notfound", "successText"},
              pageErrors |-> FALSE, rejections |-> FALSE,
              kinds |-> {"object"}, logging |-> TRUE]
    /\ InitQueueState

Next ==
    \/ \E type \in JobTypes, kind \in env.kinds, keys \in env.keyLists, url \in env.urls :
           PostJob(type, UserData(kind, keys), url)
    \/ \E j \in 0..Len(jobs) : Resume(j)
    \/ \E j \in JobIds, ok \in BOOLEAN : Launch(j, ok)
    \/ \E j \in JobIds, ok \in BOOLEAN, form \in env.forms \cup {<<>>} : Inspect(j, ok, form)
    \/ \E j \in JobIds, outcome \in FillAnswers : Fill(j, outcome)
    \/ \E j \in JobIds, outcome \in SubmitAnswers : Submit(j, outcome)
    \/ \E j \in JobIds, ok \in BOOLEAN : PostWait(j, ok)
    \/ \E j \in JobIds, ok \in BOOLEAN : Closing(j, ok)
    \/ \E j \in JobIds, ok \in BOOLEAN : NlpLaunch(j, ok)
    \/ \E j \in JobIds, ok \in BOOLEAN : NlpAgent(j, ok)

\* a step of the worker run in progress. Every awaited call of a run
\* settles (the premise that every run settles), so a run that can take a
\* step eventually takes one.
WorkerStep ==
    \/ \E j \in JobIds, ok \in BOOLEAN : Launch(j, ok)
    \/ \E j \in JobIds, ok \in BOOLEAN, form \in env.forms \cup {<<>>} : Inspect(j, ok, form)
    \/ \E j \in JobIds, outcome \in FillAnswers : Fill(j, outcome)
    \/ \E j \in JobIds, outcome \in SubmitAnswers : Submit(j, outcome)
    \/ \E j \in JobIds, ok \in BOOLEAN : PostWait(j, ok)
    \/ \E j \in JobIds, ok \in BOOLEAN : Closing(j, ok)
    \/ \E j \in JobIds, ok \in BOOLEAN : NlpLaunch(j, ok)
    \/ \E j \in JobIds, ok \in BOOLEAN : NlpAgent(j, ok)

\* repeated calls of the mapper on the same field objects and keys
RemapFieldPool == {F_FirstName, F_Gender, F_Mobile, F_MobileNumber, F_NoSelector}
RemapKeyPool == {K_first_name, K_gender, K_mobile, K_nick, K_empty}
InitRemap ==
    /\ env = [forms |-> {}, keyLists |-> {}, urls |-> {}, maxJobs |-> 0, maxResumes |-> 0,
              maxCalls |-> MaxCalls,
              fillAnswers |-> {}, submitAnswers |-> {}, pageErrors |-> FALSE]
    /\ sys = [queue |-> <<>>, isProcessing |-> FALSE, processedJobs |-> <<>>,
              added |-> <<>>, jobs |-> <<>>, run |-> <<>>,
              completed |-> NoEvent]
    /\ reqs = 0
    /\ mIn \in { [fields |-> f, keys |-> k] :
                   f \in { q \in InjSeqs(RemapFieldPool, 1, MaxFields) : DistinctLabels(q) },
                   k \in InjSeqs(RemapKeyPool, 0, MaxKeys) }
    /\ mOut = NoCall

\* one run of the classic worker
NextFill ==
    \/ \E kind \in env.kinds, keys \in env.keyLists, url \in env.urls :
           PostJob("json", UserData(kind, keys), url)
    \/ \E j \in JobIds, ok \in BOOLEAN : Launch(j, ok)
    \/ \E j \in JobIds, ok \in BOOLEAN, form \in env.forms \cup {<<>>} : Inspect(j, ok, form)
    \/ \E j \in JobIds, outcome \in FillAnswers : Fill(j, outcome)
    \/ \E j \in JobIds, outcome \in SubmitAnswers : Submit(j, outcome)
    \/ \E j \in JobIds, ok \in BOOLEAN : PostWait(j, ok)
    \/ \E j \in JobIds, ok \in BOOLEAN : Closing(j, ok)

NextMap == MapCall

\* a direct call of normalize on every string of up to MaxLen characters
NormChars == {"A", "b", "Z", "7", " ", "_"}
Strings == UNION { [1..n -> NormChars] : n \in 0..MaxLen }
InitNorm ==
    /\ env = [forms |-> {}, keyLists |-> {}, urls |-> {}, maxJobs |-> 0, maxResumes |-> 0,
              fillAnswers |-> {}, submitAnswers |-> {}, pageErrors |-> FALSE]
    /\ sys = [queue |-> <<>>, isProcessing |-> FALSE, processedJobs |-> <<>>,
              added |-> <<>>, jobs |-> <<>>, run |-> <<>>,
              completed |-> NoEvent]
    /\ reqs = 0
    /\ mIn \in { [s |-> str] : str \in Strings }
    /\ mOut = [done |-> FALSE, calls |-> 0, out |-> <<>>, first |-> <<>>]

NextNorm == NormalizeCall

\* a direct call of inspectForm on every page built from the elements below
QuestionPool ==
    { [label |-> L_Gender, shape |-> "radio", required |-> TRUE],
      [label |-> L_FirstName, shape |-> "input", required |-> TRUE],
      [label |-> L_EmailAddress, shape |-> "checkbox", required |-> FALSE],
      [label |-> L_MobileNumber, shape |-> "listbox", required |-> FALSE] }
GroupPool ==
    { [label |-> L_Gender, kind |-> "radio", selector |-> "#genterWrapper"],
      [label |-> L_Hobbies, kind |-> "checkbox", selector |-> "#hobbiesWrapper"] }
InputPool ==
    { [label |-> L_FirstName, type |-> "text", required |-> FALSE, selector |-> "#firstName"],
      [label |-> L_EmailAddress, type |-> "text", required |-> TRUE, selector |-> "#userEmail"],
      [label |-> L_Gender, type |-> "text", required |-> FALSE, selector |-> "#gender"] }
Pages ==
    { [questions |-> q, groups |-> g, inputs |-> i] :
        q \in InjSeqs(QuestionPool, 0, MaxFields),
        g \in InjSeqs(GroupPool, 0, MaxFields),
        i \in InjSeqs(InputPool, 0, MaxFields) }
InitInspect ==
    /\ env = [forms |-> {}, keyLists |-> {}, urls |-> {}, maxJobs |-> 0, maxResumes |-> 0,
              fillAnswers |-> {}, submitAnswers |-> {}, pageErrors |-> FALSE]
    /\ sys = [queue |-> <<>>, isProcessing |-> FALSE, processedJobs |-> <<>>,
              added |-> <<>>, jobs |-> <<>>, run |-> <<>>,
              completed |-> NoEvent]
    /\ reqs = 0
    /\ mIn \in Pages
    /\ mOut = [done |-> FALSE, fields |-> <<>>]

NextInspect == InspectCall

Spec == Init /\ [][Next]_vars
SpecRun == InitRun /\ [][Next]_vars
SpecFill == InitFill /\ [][NextFill]_vars
SpecSubmit == InitSubmit /\ [][Next]_vars
SpecResume == InitResume /\ [][Next]_vars
SpecPost == InitPost /\ [][NextFill]_vars
SpecLog == InitLog /\ [][Next]_vars
SpecRadio == InitRadio /\ [][NextRadio]_vars
SpecCheckbox == InitCheckbox /\ [][NextCheckbox]_vars
SpecCollide == InitCollide /\ [][NextFill]_vars
SpecLive == Init /\ [][Next]_vars /\ WF_vars(WorkerStep)
SpecMap == InitMap /\ [][NextMap]_vars
SpecRemap == InitRemap /\ [][NextMap]_vars
SpecNorm == InitNorm /\ [][NextNorm]_vars
SpecInspect == InitInspect /\ [][NextInspect]_vars

\* ------------------------------------------------------------------------
\* NLP worker in detail: runJob (mcp/system.js, first module of the file)
\* and the agent loop processUserMessage (mcp/agent.js), one action per
\* awaited call. The queue specifications summarise these steps by
\* NlpLaunch and NlpAgent.
\* ------------------------------------------------------------------------
MAX_TURNS == 10

\* the replies of the model and the tools are inputs: at most MaxToolErrors
\* tool_use blocks of a run fail (unknown name or a throwing tool) and at
\* most MaxExtraUses blocks come in addition to one block per reply
MaxToolErrors == 1
MaxExtraUses == 1

\* an entry of job.context.chatHistory: ids are the ids of the tool_use
\* blocks of an assistant entry, or the tool_use_id of a tool_result
Entry(role, kind, ids, content) ==
    [role |-> role, kind |-> kind, ids |-> ids, content |-> content]
UserMessage == Entry("user", "text", <<>>, "instruction")
MissingKeyMessage == Entry("assistant", "text", <<>>, "ANTHROPIC_API_KEY is missing")
\* a tool_use block of a reply
ToolUse(id, name) == [id |-> id, name |-> name]
idsOf(uses) == [k \in 1..Len(uses) |-> uses[k].id]
\* chatHistory.push(response): the response object of the SDK, a message
\* of role 'assistant' with the content blocks of the reply
RawResponse(uses) == Entry("assistant", "response", idsOf(uses), "")
\* assistantMessage = { role: 'assistant', content: response.content }
AssistantMessage(uses) == Entry("assistant", "message", idsOf(uses), "")
\* { role: 'user', content: [{ type: 'tool_result', tool_use_id, content }] }
ToolResult(id, content) == Entry("user", "tool_result", <<id>>, content)

\* the position and the locals of the NLP run: chatHistory is
\* job.context.chatHistory, toolUses the tool_use blocks of the last reply
\* and k the index of the block whose tool is awaited, exit the return
\* statement by which processUserMessage ended; apiCalls counts the calls
\* of anthropic.messages.create, sent is the length of the messages
\* parameter of the last call and prev that of the call before it,
\* toolErrors and extraUses count the inputs
NewAgent ==
    [pc |-> "launch", invoked |-> FALSE, currentTurnCount |-> 0,
     chatHistory |-> <<>>, toolUses |-> <<>>, k |-> 0, exit |-> "none",
     closeCalled |-> FALSE, apiCalls |-> 0, sent |-> 0, prev |-> 0,
     toolErrors |-> 0, extraUses |-> 0]

\* runJob after processUserMessage returned (lines 114-115), up to the
\* await of browser.close() in finally
agentReturns(w, exit) ==
    [sys |-> [w.sys EXCEPT !.jobs[1] = updateState(log(@, "Agent Finished"), "COMPLETED")],
     agent |-> [w.agent EXCEPT !.exit = exit, !.pc = "close"]]

\* the head of the while loop: the next turn awaits messages.create, the
\* turn after the last one returns the "maximum number of steps" text
nextTurn_LateCap(w) ==
    IF w.agent.currentTurnCount <= MAX_TURNS
    THEN [w EXCEPT !.agent.currentTurnCount = @ + 1,
                   !.agent.apiCalls = @ + 1,
                   !.agent.sent = Len(w.agent.chatHistory),
                   !.agent.prev = w.agent.sent,
                   !.agent.pc = "api"]
    ELSE agentReturns(w, "cap")
nextTurn(w) ==
    IF w.agent.currentTurnCount < MAX_TURNS
    THEN [w EXCEPT !.agent.currentTurnCount = @ + 1,
                   !.agent.apiCalls = @ + 1,
                   !.agent.sent = Len(w.agent.chatHistory),
                   !.agent.prev = w.agent.sent,
                   !.agent.pc = "api"]
    ELSE agentReturns(w, "cap")

\* the for loop over toolUses from block k on: an unknown tool name throws
\* inside the inner try before anything is awaited and its 'Error: ...'
\* result is pushed; the execute of a known tool is awaited
RECURSIVE runTools(_, _)
runTools(w, k) ==
    IF k > Len(w.agent.toolUses) THEN nextTurn(w)
    ELSE LET use == w.agent.toolUses[k]
             w1 == [w EXCEPT !.sys.jobs[1] = log(@, "Executing tool")]
         IN  IF use.name = "unknown"
             THEN runTools([w1 EXCEPT !.agent.chatHistory =
                                          Append(@, ToolResult(use.id, "Error"))], k + 1)
             ELSE [w1 EXCEPT !.agent.k = k, !.agent.pc = "tool"]

\* runJob line 110 and processUserMessage up to its first await or return
startAgent(w) ==
    LET w1 == [w EXCEPT !.sys.jobs[1] = log(@, "Starting Agent"),
                        !.agent.invoked = TRUE,
                        !.agent.chatHistory = Append(@, UserMessage)]
    IN  IF ~env.apiKey
        THEN agentReturns([w1 EXCEPT !.agent.chatHistory = Append(@, MissingKeyMessage)],
                          "missing_key")
        ELSE nextTurn(w1)

AgentBecomes(w) ==
    /\ sys' = w.sys
    /\ mOut' = w.agent
    /\ UNCHANGED <<env, reqs, mIn>>

\* chromium.launch, browser.newContext, context.newPage (lines 17-25), then
\* the start of the try block; "context" is a failure of newContext or
\* newPage, after the browser was launched
AgentLaunch(outcome) ==
    /\ mOut.pc = "launch"
    /\ outcome = "ok" \/ env.pageErrors
    /\ LET w == [sys |-> State, agent |-> mOut]
       IN  IF outcome = "ok"
           THEN LET w1 == [w EXCEPT !.sys.jobs[1] = updateState(@, "RUNNING"),
                                    !.sys.run[1].browser = "open",
                                    !.sys.run[1].pc = "nlp_agent"]
                IN  IF jobs[1].form_url # NoUrl
                    THEN AgentBecomes([w1 EXCEPT !.agent.pc = "navigate"])
                    ELSE AgentBecomes(startAgent(w1))
           ELSE AgentBecomes([sys |-> threw([State EXCEPT !.run[1].browser =
                                         IF outcome = "context" THEN "open" ELSE @], 1),
                              agent |-> [mOut EXCEPT !.pc = "done"]])

\* await mcpJob.navigateTo(formUrl) (lines 106-109); a failure goes to the
\* catch block (lines 117-119)
AgentNavigate(ok) ==
    /\ mOut.pc = "navigate"
    /\ ok \/ env.pageErrors
    /\ LET w == [sys |-> State, agent |-> mOut]
       IN  IF ok THEN AgentBecomes(startAgent(w))
           ELSE AgentBecomes([w EXCEPT
                    !.sys.jobs[1] = updateState(setError(@, "navigation error"), "FAILED"),
                    !.agent.pc = "close"])

\* the replies the model may give: a failed call, or content with a text
\* block or none and with the tool_use blocks uses
NoReply == [error |-> TRUE, text |-> FALSE, uses |-> <<>>]
Reply(text, uses) == [error |-> FALSE, text |-> text, uses |-> uses]
failures(names) == Cardinality({k \in 1..Len(names) : names[k] = "unknown"})
Replies(a) ==
    {NoReply} \cup
    { Reply(text, [k \in 1..Len(names) |->
                      ToolUse(a.currentTurnCount * (MaxExtraUses + 2) + k, names[k])]) :
        text \in BOOLEAN,
        names \in { s \in UNION { [1..n -> {"known", "unknown"}] :
                                    n \in 0..(1 + MaxExtraUses - a.extraUses) } :
                      a.toolErrors + failures(s) <= MaxToolErrors } }

\* await anthropic.messages.create(...) settles (lines 60-117, catch
\* 155-159)
AgentReply(reply) ==
    /\ mOut.pc = "api"
    /\ reply \in Replies(mOut)
    /\ LET w == [sys |-> State, agent |-> mOut]
       IN  IF reply.error
           THEN AgentBecomes(agentReturns(
                    [w EXCEPT !.sys.jobs[1] = log(@, "Agent Error")], "api_error"))
           ELSE LET w1 == [w EXCEPT
                              !.sys.jobs[1] = IF reply.text THEN log(@, "Agent says") ELSE @,
                              !.agent.chatHistory = @ \o <<RawResponse(reply.uses),
                                                           AssistantMessage(reply.uses)>>,
                              !.agent.toolUses = reply.uses,
                              !.agent.toolErrors = @ + failures([k \in 1..Len(reply.uses) |->
                                                                    reply.uses[k].name]),
                              !.agent.extraUses = IF Len(reply.uses) > 1
                                                  THEN @ + Len(reply.uses) - 1 ELSE @]
                IN  IF reply.uses = <<>>
                    THEN AgentBecomes(agentReturns(w1, "final"))
                    ELSE AgentBecomes(runTools(w1, 1))

\* await toolDef.execute(job, toolArgs) settles (lines 119-151): the
\* result, or 'Error: ...' when the tool threw, is pushed as tool_result
AgentTool(ok) ==
    /\ mOut.pc = "tool"
    /\ ok \/ mOut.toolErrors < MaxToolErrors
    /\ LET w == [sys |-> State, agent |-> mOut]
           use == mOut.toolUses[mOut.k]
       IN  AgentBecomes(runTools(
               [w EXCEPT !.agent.chatHistory =
                             Append(@, ToolResult(use.id, IF ok THEN "result" ELSE "Error")),
                         !.agent.toolErrors = IF ok THEN @ ELSE @ + 1],
               mOut.k + 1))

\* finally (lines 120-124): await browser.close(), onUpdate; a failure of
\* close leaves runJob by an exception
AgentClose(ok) ==
    /\ mOut.pc = "close"
    /\ ok \/ env.pageErrors
    /\ LET a == [mOut EXCEPT !.pc = "done", !.closeCalled = TRUE]
       IN  IF ok
           THEN AgentBecomes([sys |-> returned([State EXCEPT !.run[1].browser = "closed"], 1),
                              agent |-> a])
           ELSE AgentBecomes([sys |-> threw(State, 1), agent |-> a])

\* one NLP job, created by POST /api/chat/start with or without formUrl and
\* started by addJob, with and without ANTHROPIC_API_KEY in the environment
InitAgent ==
    /\ \E key \in BOOLEAN :
           env = [forms |-> {}, keyLists |-> {}, urls |-> {PlainUrl, NoUrl},
                  maxJobs |-> 1, maxResumes |-> 0,
                  fillAnswers |-> {}, submitAnswers |-> {},
                  pageErrors |-> TRUE, rejections |-> FALSE,
                  kinds |-> {"object"}, logging |-> FALSE, apiKey |-> key]
    /\ \E url \in {PlainUrl, NoUrl} :
           sys = addJob([IdleSys EXCEPT !.jobs = <<NewJobData("nlp", <<>>, url)>>,
                                        !.run = <<IdleRun>>], 1)
    /\ reqs = 0
    /\ mIn = [op |-> "post", type |-> "nlp", instruction |-> "instruction"]
    /\ mOut = NewAgent

AgentStep ==
    \/ \E outcome \in {"ok", "launch", "context"} : AgentLaunch(outcome)
    \/ \E ok \in BOOLEAN : AgentNavigate(ok)
    \/ \E reply \in Replies(mOut) : AgentReply(reply)
    \/ \E ok \in BOOLEAN : AgentTool(ok)
    \/ \E ok \in BOOLEAN : AgentClose(ok)

NextAgent == AgentStep

SpecAgent == InitAgent /\ [][NextAgent]_vars
\* every awaited call settles, so a run that can take a step takes one
SpecAgentLive == InitAgent /\ [][NextAgent]_vars /\ WF_vars(AgentStep)

\* ------------------------------------------------------------------------
\* Date fields: the date branch of the classic worker (mcp/system.js
\* 372-477), fillDate (shared/fieldInteractions.js 63-102) and the
\* fill_text_input tool that calls it
\* ------------------------------------------------------------------------
isDigit(c) == c \in DigitChars
digitOf(c) == CHOOSE n \in 0..9 : ToString(n) = c
\* the number the decimal digits s write
RECURSIVE numberOf(_)
numberOf(s) ==
    IF s = <<>> THEN 0
    ELSE 10 * numberOf(SubSeq(s, 1, Len(s) - 1)) + digitOf(s[Len(s)])

\* !isNaN(new Date(userValue).getTime()) for a string of DateValues: the
\* date-only form YYYY-MM-DD with a month of 01..12 and a day of 01..31 is
\* read as a date; the other strings of DateValues have no reading in any
\* form Date accepts
isDate(v) ==
    /\ Len(v) = 10
    /\ v[5] = "-" /\ v[8] = "-"
    /\ \A i \in {1, 2, 3, 4, 6, 7, 9, 10} : isDigit(v[i])
    /\ numberOf(SubSeq(v, 6, 7)) \in 1..12
    /\ numberOf(SubSeq(v, 9, 10)) \in 1..31

\* the calls made on the page for the field so far, and the outcome
DateStart == [pc |-> "locate", calls |-> <<>>, result |-> "none"]
called(c, name) == [c EXCEPT !.calls = Append(@, name)]
dateDone(c, result) == [c EXCEPT !.pc = "done", !.result = result]

\* what precedes the type branches. Classic worker (system.js 372-388):
\* page.$(selector), the visibility test for the types outside the list
\* of line 377, and the highlight el.evaluate(node => node.style.border = ...)
\* of a visible element. fill_text_input (tools, lines 54-60): page.$ and
\* scrollIntoViewIfNeeded. A direct call of fillDate has nothing before it.
dateLocate(c, handler, type, found, visible) ==
    IF handler = "shared" THEN [c EXCEPT !.pc = "parse"]
    ELSE LET c1 == called(c, "$")
         IN  IF ~found THEN [c1 EXCEPT !.pc = "parse"]
             ELSE IF handler = "tool"
             THEN [called(c1, "scrollIntoViewIfNeeded") EXCEPT !.pc = "parse"]
             ELSE IF type # "date-picker" /\ ~visible
             THEN dateDone(called(c1, "isVisible"), "skipped")
             ELSE LET c2 == IF type # "date-picker" THEN called(c1, "isVisible") ELSE c1
                      c3 == called(c2, "isVisible")
                  IN  [(IF visible THEN called(c3, "evaluate") ELSE c3) EXCEPT !.pc = "parse"]

\* new Date(userValue); if (isNaN(date.getTime())) throw new Error(...)
dateParse(c, value) ==
    IF ~isDate(value) THEN dateDone(c, "invalid_date")
    ELSE [c EXCEPT !.pc = "fill"]

\* branches A (React DatePicker) and B (native input) of the date code;
\* picker tells whether the field has a .react-datepicker-wrapper and
\* whether the overlay opens on click, fillOk whether page.fill succeeds
dateFill(c, type, picker, fillOk) ==
    LET c1 == IF type = "date-picker" THEN c ELSE called(c, "$")
    IN  IF type = "date-picker" \/ picker # "none"
        THEN LET c2 == called(called(called(c1, "click"), "waitForSelector"), "isVisible")
             IN  IF picker = "overlay"
                 THEN dateDone(called(called(called(c2, "selectOption"), "selectOption"),
                                      "click"), "ok")
                 ELSE dateDone(called(called(c2, "fill"), "press"), "ok")
        ELSE IF fillOk THEN dateDone(called(c1, "fill"), "ok")
        ELSE dateDone(called(called(c1, "fill"), "type"), "ok")

DateLocate ==
    /\ mOut.pc = "locate"
    /\ mOut' = dateLocate(mOut, mIn.handler, mIn.type, mIn.found, mIn.visible)
    /\ UNCHANGED <<env, sys, reqs, mIn>>

DateParse ==
    /\ mOut.pc = "parse"
    /\ mOut' = dateParse(mOut, mIn.value)
    /\ UNCHANGED <<env, sys, reqs, mIn>>

DateFill(fillOk) ==
    /\ mOut.pc = "fill"
    /\ mOut' = dateFill(mOut, mIn.type, mIn.picker, fillOk)
    /\ UNCHANGED <<env, sys, reqs, mIn>>

\* a date field of either type, found or not, visible or hidden, with and
\* without a picker, and a value that is a date or is not
DateValues == {<<"2","0","2","4","-","0","1","-","1","5">>,
               <<"n","o","t","-","a","-","d","a","t","e">>,
               <<"2","0","2","4","-","1","3","-","0","1">>,
               <<>>}
InitDate ==
    /\ env = NoEnv
    /\ sys = IdleSys
    /\ reqs = 0
    /\ mIn \in { [handler |-> h, type |-> t, value |-> v, found |-> f,
                  visible |-> s, picker |-> p] :
                   h \in {"inline", "shared", "tool"}, t \in {"date", "date-picker"},
                   v \in DateValues, f \in BOOLEAN, s \in BOOLEAN,
                   p \in {"none", "wrapper", "overlay"} }
    /\ mOut = DateStart

NextDate ==
    \/ DateLocate
    \/ DateParse
    \/ \E fillOk \in BOOLEAN : DateFill(fillOk)

SpecDate == InitDate /\ [][NextDate]_vars

\* ------------------------------------------------------------------------
\* Time groups: fillTimeGroup (shared/fieldInteractions.js 151-239); the
\* time-group branch of the classic worker (mcp/system.js 530-549) parses
\* the value by the same statements
\* ------------------------------------------------------------------------
\* timeStr.split(':')
RECURSIVE splitOn(_, _, _, _)
splitOn(s, sep, i, cur) ==
    IF i > Len(s) THEN <<cur>>
    ELSE IF s[i] = sep THEN <<cur>> \o splitOn(s, sep, i + 1, <<>>)
    ELSE splitOn(s, sep, i + 1, Append(cur, s[i]))

\* s.padStart(n, c)
RECURSIVE padStart(_, _, _)
padStart(s, n, c) == IF Len(s) >= n THEN s ELSE padStart(<<c>> \o s, n, c)

\* s.slice(0, n)
slice(s, n) == SubSeq(s, 1, IF Len(s) < n THEN Len(s) ELSE n)

\* parseInt(s, 10) of a string without sign or leading blanks: the number
\* its leading digits write; NaN, for which every comparison is false, is
\* given as -1
RECURSIVE leadingDigits(_)
leadingDigits(s) ==
    IF s = <<>> \/ ~isDigit(Head(s)) THEN <<>>
    ELSE <<Head(s)>> \o leadingDigits(Tail(s))
parseInt(s) == IF leadingDigits(s) = <<>> THEN -1 ELSE numberOf(leadingDigits(s))

\* the parsing statements of fillTimeGroup (lines 153-166)
parseTime(timeStr) ==
    LET parts == splitOn(timeStr, ":", 1, <<>>)
    IN  IF Len(parts) < 2
        THEN [ok |-> FALSE, hour |-> <<>>, minute |-> <<>>, ampm |-> ""]
        ELSE LET hour == padStart(trim(parts[1]), 2, "0")
                 minute == padStart(slice(trim(parts[2]), 2), 2, "0")
                 lower == toLowerCase(timeStr)
                 hasPm == includes(lower, <<"p", "m">>)
                 hasAm == includes(lower, <<"a", "m">>)
             IN  [ok |-> TRUE, hour |-> hour, minute |-> minute,
                  ampm |-> IF hasPm \/ (parseInt(hour) >= 12 /\ ~hasAm)
                           THEN "PM" ELSE "AM"]

\* a call of fillTimeGroup on a field with an hour, a minute and an AM/PM
\* input: typed is what page.type received for the hour and the minute,
\* selected the AM/PM option chosen
TimeStart ==
    [pc |-> "parse", typed |-> [hour |-> <<>>, minute |-> <<>>],
     selected |-> "", result |-> "none"]

\* lines 151-168: the value is parsed; fewer than two parts throw
TimeParse ==
    /\ mOut.pc = "parse"
    /\ LET p == parseTime(mIn.timeStr)
       IN  mOut' = IF p.ok THEN [mOut EXCEPT !.pc = "fill"]
                   ELSE [mOut EXCEPT !.pc = "done", !.result = "invalid_time"]
    /\ UNCHANGED <<env, sys, reqs, mIn>>

\* lines 175-217: the loop over field.inputs types the hour and the minute
\* and selects the AM/PM option
TimeFill ==
    /\ mOut.pc = "fill"
    /\ LET p == parseTime(mIn.timeStr)
       IN  mOut' = [mOut EXCEPT !.pc = "verify",
                                !.typed = [hour |-> p.hour, minute |-> p.minute],
                                !.selected = p.ampm]
    /\ UNCHANGED <<env, sys, reqs, mIn>>

\* lines 219-237: page.inputValue of the hour and the minute input is
\* compared with what was typed; hourRead and minuteRead tell whether the
\* page gives the typed text back
TimeVerify(hourRead, minuteRead) ==
    /\ mOut.pc = "verify"
    /\ mOut' = [mOut EXCEPT !.pc = "done",
                            !.result = IF hourRead /\ minuteRead THEN "ok"
                                       ELSE "not_verified"]
    /\ UNCHANGED <<env, sys, reqs, mIn>>

\* time values H:M with one or two digits each and an optional am/pm
\* marker, and values without a colon
TimeHours == {<<"2">>, <<"0", "9">>, <<"1", "2">>, <<"1", "4">>}
TimeMinutes == {<<"5">>, <<"3", "0">>}
TimeMarkers == {<<>>, <<" ", "p", "m">>, <<"P", "M">>, <<" ", "a", "m">>, <<" ", "A", "M">>}
InitTime ==
    /\ env = NoEnv
    /\ sys = IdleSys
    /\ reqs = 0
    /\ mIn \in { [hour |-> h, minute |-> m, marker |-> k,
                  timeStr |-> h \o <<":">> \o m \o k] :
                   h \in TimeHours, m \in TimeMinutes, k \in TimeMarkers }
              \cup
              { [hour |-> <<>>, minute |-> <<>>, marker |-> <<>>, timeStr |-> s] :
                   s \in {<<"1", "4", "3", "0">>, <<>>, <<"n", "o", "o", "n">>} }
    /\ mOut = TimeStart

NextTime ==
    \/ TimeParse
    \/ TimeFill
    \/ \E hourRead \in BOOLEAN, minuteRead \in BOOLEAN : TimeVerify(hourRead, minuteRead)

SpecTime == InitTime /\ [][NextTime]_vars

\* ------------------------------------------------------------------------
\* Direct calls of findOptionMatch
\* ------------------------------------------------------------------------
OptionCall ==
    /\ ~mOut.done
    /\ mOut' = [done |-> TRUE, result |-> findOptionMatch(mIn.options, mIn.userValue)]
    /\ UNCHANGED <<env, sys, reqs, mIn>>

\* option lists of up to MaxFields options that have all three attributes,
\* among them the placeholder of a select (empty value and label) and an
\* option whose texts contain the texts of another one
L_Males == <<"M","a","l","e","s">>
L_SelectState == <<"S","e","l","e","c","t"," ","S","t","a","t","e">>
OptionPool ==
    {OptionOf("o1", <<"m">>, L_Male, <<>>),
     OptionOf("o2", <<>>, <<>>, L_SelectState),
     OptionOf("o3", L_Female, <<" ","F","e","m","a","l","e"," ">>, L_Female),
     OptionOf("o4", L_Males, L_Males, L_Males),
     OptionOf("o5", L_Male, <<>>, L_Male)}
OptionValues ==
    {<<"m","a","l","e">>, <<" ","M","A","L","E"," ">>, <<>>, <<"m","a","l">>,
     L_Female, <<"s","e","l","e","c","t"," ","s","t","a","t","e">>, <<"M">>}
InitOption ==
    /\ env = NoEnv
    /\ sys = IdleSys
    /\ reqs = 0
    /\ mIn \in { [options |-> o, userValue |-> v] :
                   o \in InjSeqs(OptionPool, 0, MaxFields), v \in OptionValues }
    /\ mOut = [done |-> FALSE, result |-> 0]

NextOption == OptionCall

SpecOption == InitOption /\ [][NextOption]_vars

\* ------------------------------------------------------------------------
\* Direct calls of the mapper with key lists in which several keys reach
\* the same score: keys that differ only in case and punctuation, and keys
\* that match the field equally little
\* ------------------------------------------------------------------------
K_FirstName == <<"F","i","r","s","t","N","a","m","e">>
K_GENDER == <<"G","E","N","D","E","R">>
TieFieldPool == {F_FirstName, F_Gender, F_Nick}
TieKeyPool == {K_first_name, K_FirstName, K_gender, K_GENDER, K_photo, K_birth, K_empty}
InitTie ==
    /\ env = [forms |-> {}, keyLists |-> {}, urls |-> {}, maxJobs |-> 0, maxResumes |-> 0,
              maxCalls |-> 1,
              fillAnswers |-> {}, submitAnswers |-> {}, pageErrors |-> FALSE]
    /\ sys = IdleSys
    /\ reqs = 0
    /\ mIn \in { [fields |-> f, keys |-> k] :
                   f \in InjSeqs(TieFieldPool, 1, MaxFields),
                   k \in InjSeqs(TieKeyPool, 0, MaxKeys) }
    /\ mOut = NoCall

SpecTie == InitTie /\ [][NextMap]_vars

\* ------------------------------------------------------------------------
\* Properties
\* ------------------------------------------------------------------------
Running == { j \in JobIds : run[j].pc # "idle" }
IsClassic(j) == jobs[j].type = "json"
Range(q) == { q[i] : i \in 1..Len(q) }
Mapped(j, k) == userKeyOf(jobs[j], jobs[j].detected_fields[k]) # NoKey
Attempted(j, k) == \E i \in 1..Len(run[j].attempts) : run[j].attempts[i].idx = k
RequiredThrow(a) == a.outcome = "throw" /\ a.required
OptionalThrow(a) == a.outcome = "throw" /\ ~a.required
NoThrow(j) == \A i \in 1..Len(run[j].attempts) : run[j].attempts[i].outcome # "throw"

\* C1: at every moment at most one worker run (classic or NLP) is in
\* progress, and a run is in progress only while the queue's isProcessing
\* flag is set, whatever the interleaving of addJob calls, resume requests
\* and worker completions.
C1_OneRunAtATime ==
    /\ Cardinality(Running) <= 1
    /\ Running # {} => isProcessing

\* a run is in progress while another job waits in the queue and one job
\* has already been resumed
C1_Witness ==
    /\ Running # {}
    /\ queue # <<>>
    /\ reqs > 0

\* the order of the execution states of a run
Rank(s) ==
    CASE s = "INSPECTING" -> 1
      [] s = "FILLING" -> 2
      [] s = "SUBMITTING" -> 3
      [] s \in {"COMPLETED", "FAILED"} -> 4
      [] OTHER -> 0

\* C2: during one run of the classic worker the execution state only moves
\* forward (INSPECTING, FILLING, SUBMITTING, then COMPLETED or FAILED) and a
\* COMPLETED or FAILED state is never followed by a different state.
C2_ForwardOnly ==
    \A j \in JobIds : IsClassic(j) =>
        LET tr == jobs[j].stateLog
        IN  \A i \in 1..(Len(tr) - 1) :
                /\ Rank(tr[i]) <= Rank(tr[i + 1])
                /\ tr[i] \in {"COMPLETED", "FAILED"} => tr[i + 1] = tr[i]

\* C3: when the interaction on a required mapped field raises an error the
\* run ends in FAILED and stops: that field is the last one attempted, the
\* state never becomes SUBMITTING and the submit control is never clicked.
C3_RequiredErrorStops ==
    \A j \in JobIds : IsClassic(j) =>
        \A i \in 1..Len(run[j].attempts) :
            RequiredThrow(run[j].attempts[i]) =>
                /\ i = Len(run[j].attempts)
                /\ run[j].pc = "idle"
                /\ ~run[j].submitClicked
                /\ "SUBMITTING" \notin Range(jobs[j].stateLog)
                /\ jobs[j].stateLog[Len(jobs[j].stateLog)] = "FAILED"

\* a required field raised while a mapped field was still to come
C3_Witness ==
    \E j \in JobIds :
        /\ IsClassic(j)
        /\ run[j].attempts # <<>>
        /\ RequiredThrow(run[j].attempts[Len(run[j].attempts)])
        /\ \E k \in (run[j].idx + 1)..Len(jobs[j].detected_fields) : Mapped(j, k)

\* C4: a job with a required field that was mapped to a data key and whose
\* interaction did not succeed never reaches COMPLETED.
C4_MappedRequiredUnverifiedNeverCompleted ==
    \A j \in JobIds :
        (IsClassic(j) /\ jobs[j].execution_state = "COMPLETED") =>
            \A k \in 1..Len(jobs[j].detected_fields) :
                (jobs[j].detected_fields[k].required /\ Mapped(j, k))
                    => jobs[j].detected_fields[k].verified

UnmappedRequired(j) ==
    { k \in 1..Len(jobs[j].detected_fields) :
        jobs[j].detected_fields[k].required /\ ~Mapped(j, k) }

C6_RequiredUnfilledNeverCompleted ==
    \A j \in JobIds :
        (IsClassic(j) /\ jobs[j].execution_state = "COMPLETED") =>
            \A k \in 1..Len(jobs[j].detected_fields) :
                jobs[j].detected_fields[k].required
                    => jobs[j].detected_fields[k].verified

\* C7 as stated: after the failed interaction on a non-required field every
\* later field of the fill order is attempted and the run reaches the
\* submission step.
C7_OptionalErrorAlwaysReachesSubmit ==
    \A j \in JobIds : (IsClassic(j) /\ run[j].pc = "idle") =>
        \A i \in 1..Len(run[j].attempts) :
            OptionalThrow(run[j].attempts[i]) =>
                /\ "SUBMITTING" \in Range(jobs[j].stateLog)
                /\ \A k \in (run[j].attempts[i].idx + 1)..Len(jobs[j].detected_fields) :
                       Mapped(j, k) => Attempted(j, k)

\* C7 amended: after the failed interaction on a non-required field the
\* filling continues: unless a later required field raises, every later
\* mapped field is attempted and the run reaches the submission step.
C7_OptionalErrorContinues ==
    \A j \in JobIds : IsClassic(j) =>
        \A i \in 1..Len(run[j].attempts) :
            (/\ OptionalThrow(run[j].attempts[i])
             /\ ~\E i2 \in (i + 1)..Len(run[j].attempts) :
                    RequiredThrow(run[j].attempts[i2])) =>
                LET last == IF run[j].pc = "fill" THEN run[j].idx - 1
                            ELSE Len(jobs[j].detected_fields)
                IN  /\ run[j].pc = "fill" => run[j].idx > run[j].attempts[i].idx
                    /\ run[j].pc # "fill" => "SUBMITTING" \in Range(jobs[j].stateLog)
                    /\ \A k \in (run[j].attempts[i].idx + 1)..last :
                           Mapped(j, k) => Attempted(j, k)

\* a non-required field failed, a later field was attempted and the run
\* reached the submission step
C7_Witness ==
    \E j \in JobIds :
        /\ IsClassic(j)
        /\ "SUBMITTING" \in Range(jobs[j].stateLog)
        /\ \E i \in 1..(Len(run[j].attempts) - 1) : OptionalThrow(run[j].attempts[i])

\* C8: in the mapping returned by mapFieldsToUserData no data key is
\* claimed twice: two different field keys never map to the same data key.
C8_NoKeyClaimedTwice ==
    mOut.done =>
        \A a, b \in DOMAIN mOut.mapping :
            a # b => mOut.mapping[a] # mOut.mapping[b]

\* the highest score of the field over the key list (keys non-empty)
maxScore(field, keys) ==
    LET S == { score(field, keys[i]) : i \in 1..Len(keys) }
    IN  CHOOSE m \in S : \A x \in S : x <= m

\* C9: a field is mapped to its highest-scoring data key if and only if
\* that score is at least 40.
C9_MapsIffBestScoreAtLeast40 ==
    mOut.done =>
        \A i \in 1..Len(mIn.fields) :
            LET k == mOut.fields[i].matchedKey
            IN  IF mIn.keys = <<>> THEN k = NoKey
                ELSE LET m == maxScore(mIn.fields[i], mIn.keys)
                     IN  /\ m >= 40 => (k # NoKey /\ score(mIn.fields[i], k) = m)
                         /\ m < 40 => k = NoKey

\* C10: a field whose normalized label equals the normalization of some
\* data key is always mapped to a data key.
C10_ExactLabelAlwaysMaps ==
    mOut.done =>
        \A i \in 1..Len(mIn.fields) :
            (\E n \in 1..Len(mIn.keys) :
                 normalize(mIn.keys[n]) = normalize(mIn.fields[i].label))
                => mOut.fields[i].matchedKey # NoKey

\* C11: a repeated call of mapFieldsToUserData with the same keys on the
\* field objects the first call has processed returns the same mapping as
\* the first call.
C11_RepeatedCallSameMapping ==
    mOut.calls >= 2 => mOut.mapping = mOut.first

\* the second call ran on field objects that the first call annotated
C11_Witness ==
    /\ mOut.calls >= 2
    /\ mOut.fields # mIn.fields
    /\ DOMAIN mOut.mapping # {}

\* C12: a call of mapFieldsToUserData leaves every field object of its
\* input list unchanged.
C12_FieldObjectsUnchanged ==
    mOut.done => mOut.fields = mIn.fields

\* C13: label normalization is idempotent: normalize(normalize(s)) equals
\* normalize(s) for every string s.
C13_NormalizeIdempotent ==
    mOut.calls >= 2 => mOut.out = mOut.first

\* normalize was applied twice to a string that it changes and does not
\* empty: upper case and separator characters
C13_Witness ==
    /\ mOut.calls >= 2
    /\ mOut.first # mIn.s
    /\ mOut.first # <<>>
    /\ \E i \in 1..Len(mIn.s) : mIn.s[i] \in UpperSet
    /\ \E i \in 1..Len(mIn.s) : ~IsAlnum(LowerChar(mIn.s[i]))

\* the groups of the fixed priority table, in the order of the claim
PriorityGroup(type) ==
    CASE type \in {"text", "email", "phone", "textarea"} -> 1
      [] type = "radio-group" -> 2
      [] type = "checkbox-group" -> 3
      [] type = "select" -> 4
      [] type \in {"date", "date-picker"} -> 5
      [] type = "react-select" -> 6
      [] type = "file" -> 7
      [] OTHER -> 0
AttemptGroup(j, i) ==
    PriorityGroup(jobs[j].detected_fields[run[j].attempts[i].idx].type)

\* C14: the fill loop attempts the fields group by group: text-like, then
\* radio-group, checkbox-group, select, date or date-picker, react-select,
\* file; no field of a later group is attempted before a field of an
\* earlier group.
C14_FillOrderByPriority ==
    \A j \in JobIds : IsClassic(j) =>
        \A i, i2 \in 1..Len(run[j].attempts) :
            AttemptGroup(j, i) < AttemptGroup(j, i2) => i < i2

\* two fields of different groups were attempted in one run
C14_Witness ==
    \E j \in JobIds :
        /\ IsClassic(j)
        /\ \E i, i2 \in 1..Len(run[j].attempts) : AttemptGroup(j, i) # AttemptGroup(j, i2)

Signals == {"successText", "urlChanged", "formGone"}

\* C15: after the click on the submit control the job reaches COMPLETED
\* only if the page gave a confirmation signal (success text, changed URL,
\* first field gone); a run that clicked and saw no signal ends in FAILED.
C15_CompletedOnlyWithSignal ==
    \A j \in JobIds : IsClassic(j) =>
        /\ "COMPLETED" \in Range(jobs[j].stateLog) => run[j].signal \in Signals
        /\ (run[j].submitClicked /\ run[j].signal \notin Signals /\ run[j].pc = "idle")
               => jobs[j].execution_state = "FAILED"

NotFoundMessage == "Submit button not found"

\* C16 as stated: a run that found no submit control ends in FAILED with
\* the error 'Submit button not found', without a click and without
\* COMPLETED.
C16_NotFoundEndsWithMessage ==
    \A j \in JobIds :
        (IsClassic(j) /\ run[j].signal = "notfound" /\ run[j].pc = "idle"
                      /\ jobs[j].execution_state # "PENDING") =>
            /\ jobs[j].execution_state = "FAILED"
            /\ jobs[j].error = NotFoundMessage
            /\ ~run[j].submitClicked
            /\ "COMPLETED" \notin Range(jobs[j].stateLog)

\* C16 amended: a run that found no submit control performs no click and
\* never reaches COMPLETED; unless a resume request was accepted since, the
\* job is FAILED with the error 'Submit button not found', or, once the
\* wait that follows has raised, with the message of that exception.
C16_NotFoundFails ==
    \A j \in JobIds : (IsClassic(j) /\ run[j].signal = "notfound") =>
        /\ ~run[j].submitClicked
        /\ "COMPLETED" \notin Range(jobs[j].stateLog)
        /\ jobs[j].execution_state # "PENDING" =>
               /\ jobs[j].execution_state = "FAILED"
               /\ jobs[j].status = "FAILED"
               /\ \/ jobs[j].error = NotFoundMessage
                  \/ run[j].pc = "idle" /\ jobs[j].error = "page error"

\* a run that found no submit control has ended with the message
C16_Witness ==
    \E j \in JobIds :
        /\ IsClassic(j)
        /\ run[j].signal = "notfound"
        /\ run[j].pc = "idle"
        /\ jobs[j].error = NotFoundMessage

\* C17: at the end of a run of the classic worker the browser is closed if
\* and only if the final state is COMPLETED; with FAILED it is left open.
C17_ClosedIffCompleted ==
    \A j \in JobIds :
        (IsClassic(j) /\ run[j].pc = "idle" /\ run[j].browser \in {"open", "closed"}) =>
            /\ jobs[j].execution_state = "COMPLETED" => run[j].browser = "closed"
            /\ jobs[j].execution_state = "FAILED" => run[j].browser = "open"

\* C19: a run that detected zero fields for a caller who supplied at least
\* one data key never reaches COMPLETED.
C19_NoFieldsWithDataNeverCompleted ==
    \A j \in JobIds :
        (/\ IsClassic(j)
         /\ "FILLING" \in Range(jobs[j].stateLog)
         /\ jobs[j].detected_fields = <<>>
         /\ jobs[j].keys # <<>>)
            => "COMPLETED" \notin Range(jobs[j].stateLog)

\* C18: a field registered under a label by the structured-container
\* strategy is the field returned for that label, whatever the native-group
\* strategy and the generic scan resolve later.
C18_EarlierStrategyKept ==
    mOut.done =>
        \A i \in 1..Len(mIn.questions) :
            LET q == mIn.questions[i]
            IN  (q.label # <<>> /\ questionSelector(q, i - 1) # "")
                    => questionField(q, i - 1) \in Range(mOut.fields)

\* C20: when every detected field's label equals a data key, every field
\* interaction verifies and the submission is confirmed, the run passes
\* through INSPECTING, FILLING, SUBMITTING and ends in COMPLETED, with every
\* field mapped at a score of at least 100 and filledRequired equal to
\* totalRequired.
C20_MatchingLabelsComplete ==
    \A j \in JobIds :
        (/\ IsClassic(j)
         /\ jobs[j].detected_fields # <<>>
         /\ \A k \in 1..Len(jobs[j].detected_fields) :
                jobs[j].detected_fields[k].label \in Range(jobs[j].keys)
         /\ \A i \in 1..Len(run[j].attempts) : run[j].attempts[i].outcome = "ok"
         /\ run[j].signal \in Signals) =>
            /\ jobs[j].stateLog = <<"INSPECTING", "FILLING", "SUBMITTING", "COMPLETED">>
            /\ jobs[j].execution_state = "COMPLETED"
            /\ run[j].validation.filledRequired = run[j].validation.totalRequired
            /\ \A k \in 1..Len(jobs[j].detected_fields) :
                   LET field == jobs[j].detected_fields[k]
                   IN  /\ Mapped(j, k)
                       /\ field.verified
                       /\ score(field, field.matchedKey) >= 100

\* C21: a resume is accepted only for a job whose status is FAILED and whose
\* retry_count is below 3; an accepted resume adds exactly 1 to retry_count
\* and puts the job at the back of the queue (from where an idle queue
\* starts it at once); a rejected resume leaves the jobs and the queue as
\* they were; retry_count never exceeds 3.
C21_ResumeAtMostThreeTimes ==
    /\ [](\A j \in JobIds : jobs[j].retry_count <= 3)
    /\ [][reqs' = reqs + 1 =>
            IF mOut'.code = 200
            THEN LET j == mOut'.job
                 IN  /\ jobs[j].status = "FAILED"
                     /\ jobs[j].retry_count < 3
                     /\ jobs'[j].retry_count = jobs[j].retry_count + 1
                     /\ \/ queue' = Append(queue, j) /\ processedJobs' = processedJobs
                        \/ /\ queue = <<>> /\ queue' = <<>>
                           /\ processedJobs' = Append(processedJobs, j)
            ELSE sys' = sys]_vars

\* three resumes of a job were accepted and a fourth one was rejected
C21_Witness ==
    /\ mOut.op = "resume"
    /\ mOut.code = 400
    /\ jobs[mOut.job].status = "FAILED"
    /\ jobs[mOut.job].retry_count = 3

\* C22: the jobs are started in the order of the calls of addJob: the
\* starts so far, followed by the jobs still waiting, are the calls of
\* addJob in their order.
C22_StartedInOrderOfAddJob == added = processedJobs \o queue

\* job 1 was added again while job 2 was added, and all three were started
C22_Witness ==
    /\ processedJobs = <<1, 2, 1>>
    /\ queue = <<>>
    /\ jobs[1].retry_count = 1

\* C23: POST /jobs without a formUrl, or with a userData that is missing or
\* is not an object, is answered 400 and leaves the queue, the history and
\* the jobs as they were; every other request is answered 201 with the id of
\* the one job it creates, which is added to the queue exactly once.
C23_PostJobsValidated ==
    /\ [](mIn.op = "post" /\ mIn.type = "json" =>
            IF mIn.formUrl = NoUrl \/ mIn.userData.kind # "object"
            THEN mOut.code = 400
            ELSE mOut.code = 201 /\ mOut.job \in JobIds)
    /\ [][mIn'.op = "post" /\ <<mIn', mOut', Len(jobs')>> # <<mIn, mOut, Len(jobs)>> =>
            IF mOut'.code = 400
            THEN sys' = sys
            ELSE LET j == mOut'.job
                 IN  /\ Len(jobs') = Len(jobs) + 1
                     /\ j = Len(jobs')
                     /\ added' = Append(added, j)
                     /\ \/ queue' = Append(queue, j) /\ processedJobs' = processedJobs
                        \/ /\ queue = <<>> /\ queue' = <<>>
                           /\ processedJobs' = Append(processedJobs, j)]_vars

IsPrefix(s, t) == Len(s) <= Len(t) /\ SubSeq(t, 1, Len(s)) = s

\* C24: the log of a job is append-only: in every step the entries already
\* in data.logs stay, in their order, at the front of data.logs; and every
\* call that logs adds exactly one entry.
C24_LogAppendOnly ==
    /\ [](\A j \in JobIds : Len(jobs[j].logs) = jobs[j].logCalls)
    /\ [][\A j \in JobIds : IsPrefix(jobs[j].logs, jobs'[j].logs)]_vars

\* C25: a job is never waiting in the queue while a run of it is in
\* progress, and a resume request is accepted only for a job whose run has
\* ended.
C25_NotQueuedWhileRunning ==
    /\ [](\A j \in Running : j \notin Range(queue))
    /\ [][reqs' = reqs + 1 /\ mOut'.code = 200 => run[mOut'.job].pc = "idle"]_vars

\* C26: a radio handler reports success only if it read the matched
\* option's input back as checked, after the first click or after one
\* retry click; an input still unchecked after the retry is a failure.
C26_RadioSuccessOnlyIfReadChecked ==
    mOut.pc = "done" /\ mOut.result = "success" =>
        /\ mOut.isChecked
        /\ mOut.page = mOut.match
        /\ mOut.clicks <= 2

\* C27: a checkbox handler never clicks an option that is checked; a call
\* that succeeds leaves checked the options that were checked before it and
\* the options its values match, and no other; a second call with the same
\* values leaves the page as the first call left it.
C27_CheckboxIdempotent ==
    mOut.calls >= 1 /\ mOut.result = "success" =>
        /\ \A i \in 1..Len(mOut.clicks) : ~mOut.clicks[i].wasChecked
        /\ mOut.page = mOut.before \cup
               { findOptionMatch(mIn.options, mIn.values[i]) : i \in 1..Len(mIn.values) }
        /\ mOut.calls = 2 => mOut.page = mOut.first

\* C28: a field of the structured-container strategy has the type of its
\* container's content: radio-group for radio elements, checkbox-group for
\* checkbox elements, select for a listbox, whatever its label; only a
\* text-like field takes the type email, phone or date from its label.
C28_TypeByContainerShape ==
    mOut.done =>
        \A i \in 1..Len(mIn.questions) : \A f \in Range(mOut.fields) :
            LET q == mIn.questions[i]
            IN  (questionSelector(q, i - 1) # "" /\ f.selector = questionSelector(q, i - 1))
                    => /\ q.shape = "radio" => f.type = "radio-group"
                       /\ q.shape = "checkbox" => f.type = "checkbox-group"
                       /\ q.shape = "listbox" => f.type = "select"
                       /\ f.type \in {"email", "phone", "date"}
                              => q.shape \in {"input", "textarea", "editable"}

\* C29: every interaction of the fill loop uses the value of the data key
\* the mapper selected for the field it fills (field.matchedKey).
C29_FilledWithMatchedKey ==
    \A j \in JobIds : IsClassic(j) =>
        \A i \in 1..Len(run[j].attempts) :
            LET a == run[j].attempts[i]
            IN  a.key = jobs[j].detected_fields[a.idx].matchedKey

\* the n-th call of addJob is followed by the n-th start
StartedEventually ==
    \A n \in 1..(MaxJobs + MaxResumes) :
        (Len(added) >= n) ~> (Len(processedJobs) >= n)

\* C30: every job added is eventually started; every start is followed by
\* exactly one jobCompleted event, emitted for that job when its run has
\* settled and before the next job is started; the event carries the status
\* COMPLETED or FAILED.
C30_StartedAndCompletedOnce ==
    /\ StartedEventually
    /\ [](completed.count = Len(processedJobs) - (IF isProcessing THEN 1 ELSE 0))
    /\ [](completed.count > 0 =>
            /\ completed.job = processedJobs[completed.count]
            /\ completed.status \in {"COMPLETED", "FAILED"})

\* C31: at every moment a job's status is one of QUEUED, RUNNING, COMPLETED,
\* FAILED and is the status that updateState's map gives for the job's
\* current execution_state; a job re-queued by resume is therefore QUEUED.
C31_StatusFollowsMap ==
    \A j \in JobIds :
        /\ jobs[j].status \in {"QUEUED", "RUNNING", "COMPLETED", "FAILED"}
        /\ jobs[j].status = statusMap(jobs[j].execution_state)

\* C32: an NLP job ends in COMPLETED only if the agent loop ended with a
\* final reply of the model (a response without tool use); when
\* processUserMessage ended because the API key is missing, because an API
\* call failed or because the turn cap was reached, the job ends in FAILED;
\* and on every exit path of the NLP runJob the browser is closed (no run
\* ends with a launched browser on which close was never called).
C32_NlpCompletedOnlyOnFinalReply ==
    mOut.pc = "done" =>
        /\ jobs[1].status = "COMPLETED" => mOut.exit = "final"
        /\ mOut.exit \in {"missing_key", "api_error", "cap"} => jobs[1].status = "FAILED"
        /\ run[1].browser = "open" => mOut.closeCalled

\* C33: processUserMessage always terminates and returns a string without
\* throwing: it makes at most 10 model API calls per invocation; a tool that
\* throws or an unknown tool name yields an 'Error: ...' tool result for
\* that tool_use block and the loop goes on (to the next tool, the next API
\* call or the turn cap); every invocation ends by one of its return
\* statements, given that every awaited call settles.
C33_AgentLoopTerminates ==
    /\ [](mOut.apiCalls <= MAX_TURNS)
    /\ [](\A k \in 1..Len(mOut.toolUses) :
            (/\ mOut.toolUses[k].name = "unknown"
             /\ \/ mOut.pc = "tool" /\ k < mOut.k
                \/ mOut.pc \in {"api", "close", "done"})
            => \E i \in 1..Len(mOut.chatHistory) :
                   mOut.chatHistory[i] = ToolResult(mOut.toolUses[k].id, "Error"))
    /\ [](mOut.invoked /\ mOut.pc \in {"close", "done"} => mOut.exit # "none")
    /\ [][mOut.pc = "tool" =>
            LET h == mOut.chatHistory
                n == Len(h) + 1
            IN  /\ Len(mOut'.chatHistory) >= n
                /\ mOut'.chatHistory[n].kind = "tool_result"
                /\ mOut'.chatHistory[n].ids = <<mOut.toolUses[mOut.k].id>>
                /\ mOut'.toolErrors > mOut.toolErrors => mOut'.chatHistory[n].content = "Error"
                /\ mOut'.pc \in {"tool", "api"} \/ mOut'.exit = "cap"]_vars
    /\ (mOut.invoked ~> mOut.exit # "none")

\* the turn cap was reached after ten API calls, one of them answered by a
\* tool_use block whose tool failed
C33_Witness ==
    /\ mOut.exit = "cap"
    /\ mOut.apiCalls = MAX_TURNS
    /\ \E i \in 1..Len(mOut.chatHistory) :
           mOut.chatHistory[i].kind = "tool_result" /\ mOut.chatHistory[i].content = "Error"

\* C34: between two consecutive model API calls of the agent loop,
\* chatHistory gains exactly one assistant entry (the model's reply)
\* followed by exactly one tool_result entry for each tool_use block of that
\* reply, in block order and with the matching tool_use_id; and the history
\* never contains two consecutive assistant entries.
C34_OneAssistantEntryPerReply ==
    LET h == mOut.chatHistory
        gained == SubSeq(h, mOut.prev + 1, mOut.sent)
    IN  /\ (mOut.pc = "api" /\ mOut.apiCalls >= 2) =>
               /\ Len(gained) = 1 + Len(mOut.toolUses)
               /\ gained[1].role = "assistant"
               /\ gained[1].ids = idsOf(mOut.toolUses)
               /\ \A k \in 1..Len(mOut.toolUses) :
                      /\ gained[1 + k].kind = "tool_result"
                      /\ gained[1 + k].ids = <<mOut.toolUses[k].id>>
        /\ \A i \in 1..(Len(h) - 1) :
               ~(h[i].role = "assistant" /\ h[i + 1].role = "assistant")

\* C35: for a date or date-picker field whose value cannot be parsed as a
\* calendar date, the handler fails with an invalid-date error before any
\* interaction with the page is performed for that field: no click, fill,
\* type, key press or in-page script evaluation precedes the error.
C35_InvalidDateBeforeInteraction ==
    (mOut.pc = "done" /\ ~isDate(mIn.value)) =>
        /\ mOut.result = "invalid_date"
        /\ \A i \in 1..Len(mOut.calls) :
               mOut.calls[i] \notin {"click", "fill", "type", "press", "evaluate"}

\* C36: for every time value of the form H:M with a one- or two-digit hour
\* and minute, optionally followed by an am/pm marker, the time-group
\* handler types the hour and the minute each as exactly two decimal digits
\* (left-padded with 0) and selects PM when the value contains 'pm' or,
\* without an am/pm marker, when the hour is at least 12, and AM otherwise;
\* a value with fewer than two colon-separated parts fails.
C36_TimeTwoDigitsAndMeridiem ==
    LET twoDigits(d) == IF Len(d) = 1 THEN <<"0">> \o d ELSE d
        marker == toLowerCase(trim(mIn.marker))
    IN  /\ (mOut.pc \in {"verify", "done"} /\ mIn.hour # <<>>) =>
               /\ mOut.typed.hour = twoDigits(mIn.hour)
               /\ mOut.typed.minute = twoDigits(mIn.minute)
               /\ mOut.selected =
                      IF marker = <<"p", "m">> THEN "PM"
                      ELSE IF marker = <<>> /\ numberOf(mIn.hour) >= 12 THEN "PM"
                      ELSE "AM"
        /\ (mOut.pc # "parse" /\ mIn.hour = <<>>) => mOut.result = "invalid_time"

\* C37 (as stated): findOptionMatch returns the first option, in list
\* order, whose value, label or text equals the user value after trimming
\* and lowercasing both sides, and returns null when no option matches
\* exactly; it never returns an option that matches only by substring.
C37_FirstExactOption ==
    LET normVal == toLowerCase(trim(mIn.userValue))
        equal(o) == \E a \in {o.value, o.label, o.text} : toLowerCase(trim(a)) = normVal
        hits == {i \in 1..Len(mIn.options) : equal(mIn.options[i])}
    IN  mOut.done =>
            mOut.result = IF hits = {} THEN 0
                          ELSE CHOOSE i \in hits : \A k \in hits : i <= k

\* C37 (amended): findOptionMatch returns the first option, in list order,
\* that has a non-empty value, label or text equal to the user value after
\* trimming and lowercasing both sides (an empty attribute is never
\* compared), and null when there is none; an option that matches only by
\* substring is never returned.
C37_FirstExactNonEmptyOption ==
    LET normVal == toLowerCase(trim(mIn.userValue))
        equal(o) == \E a \in {o.value, o.label, o.text} :
                        a # <<>> /\ toLowerCase(trim(a)) = normVal
        hits == {i \in 1..Len(mIn.options) : equal(mIn.options[i])}
    IN  mOut.done =>
            mOut.result = IF hits = {} THEN 0
                          ELSE CHOOSE i \in hits : \A k \in hits : i <= k

\* a call that returned the second option of the list: the first one matches
\* the value only by substring
C37_Witness ==
    /\ mOut.done
    /\ mOut.result = 2
    /\ includes(toLowerCase(mIn.options[1].label), toLowerCase(trim(mIn.userValue)))

\* the positions in the key list of the keys that reach the field's highest
\* score (keys non-empty)
topKeys(field, keys) ==
    {n \in 1..Len(keys) : score(field, keys[n]) = maxScore(field, keys)}

\* C38: when several data keys reach the same highest score for a field,
\* the mapper maps the field to the one that comes first in the
\* caller-supplied key order: a mapped field whose highest score is reached
\* by several keys carries the first of them.
C38_TieFirstKeyWins ==
    mOut.done =>
        \A i \in 1..Len(mIn.fields) :
            (mIn.keys # <<>> /\ mOut.fields[i].matchedKey # NoKey) =>
                LET top == topKeys(mIn.fields[i], mIn.keys)
                IN  Cardinality(top) >= 2 =>
                        mOut.fields[i].matchedKey =
                            mIn.keys[CHOOSE n \in top : \A k \in top : n <= k]

\* a field mapped to the first of two different keys that reach its highest
\* score
C38_Witness ==
    /\ mOut.done
    /\ Len(mIn.keys) >= 2
    /\ \E n \in 2..Len(mIn.keys) :
           /\ mIn.keys[n] # mIn.keys[1]
           /\ {1, n} \subseteq topKeys(mIn.fields[1], mIn.keys)
           /\ mOut.fields[1].matchedKey = mIn.keys[1]

\* C39: when fieldInteractions.selectCheckbox returns true, every requested
\* value's matched option is in the checked state, for checkboxes that
\* toggle on each click, including options that carry no element id.
C39_SharedCheckboxEndsChecked ==
    (mIn.handler = "shared" /\ mOut.calls >= 1 /\ mOut.result = "success") =>
        \A i \in 1..Len(mIn.values) :
            findOptionMatch(mIn.options, mIn.values[i]) \in mOut.page

====
